---- MODULE Spec2Model ----
(***************************************************************************)
(* Model of analysis/mercury-system-resonance.py: the detection of         *)
(* mean-motion resonances between adjacent planets of a simulation.        *)
(* Two other scripts of analysis/ follow it: mercury-check-simulation.py   *)
(* (the resubmission of simulations) and mercury-orbits.py (the frames of  *)
(* the animation of the orbits).                                           *)
(*                                                                         *)
(* Numbers.  The script works on floats; the model works on exact          *)
(* integers and rationals.  Angles are whole degrees.  A ratio is a pair   *)
(* <<n, d>> (n/d, d > 0).  A Fraction is a record [numerator, denominator] *)
(* in lowest terms, as fractions.Fraction keeps it.                        *)
(***************************************************************************)
EXTENDS Integers, Sequences, FiniteSets

VARIABLES
    pc,                     \* position of the script / of the harness
    error,                  \* the exception that ended the script, or None
    element_out,            \* input: the rows of element.out (semi-major axes)
    aei,                    \* input: for each planet, the rows of its .aei file
    nb_planets,             \* line 132
    a,                      \* line 141: semi-major axes from element.out
    period,                 \* line 144
    mean_motion_res,        \* line 148: per pair, the main resonance or None
    longitude_res,          \* line 149: per pair, the apsidal flag
    extra_mean_motion_res,  \* line 151: per pair, the other resonances
    last,                   \* the names ti, ai, gi, ni, Mi of the parsing loops
    inner,                  \* t_inner, a_inner, g_inner, n_inner, M_inner
    outer,                  \* t_outer, a_outer, g_outer, n_outer, M_outer
    planet,                 \* index of the pair loop (line 201), from 0
    resonances,             \* line 272: the candidates of the current pair
    todo,                   \* the candidates the loop of line 276 has yet to visit
    discovered,             \* history: per pair, the accepted candidates in order
    period_i,               \* harness: the ratio handed to Fraction(), <<n, d>>
    max_denominator,        \* harness: the argument of limit_denominator
    fraction,               \* harness: the Fraction returned (line 267)
    phi_raw,                \* harness: angle values before folding
    phi_folded,             \* harness: the same values after lines 300-304
    previous,               \* what an earlier run of the script on the same files gave
    \* mercury-check-simulation.py
    argv,                   \* input: sys.argv[1:], the keys of the options
    avakas,                 \* input: 'avakas' in hostname
    simu_list,              \* input: the simulation folders, sorted, and their files
    options,                \* isRestart, isForcedStart, isForcedContinue, isContinue, ...
    arg,                    \* number of arguments the loop of line 68 has handled
    simu,                   \* number of folders the loop of line 145 has handled
    simulation_status,      \* per folder, the status of line 147-173, or NotChecked
    calls,                  \* per folder, the calls to mercury_utilities, in order
    finished,               \* line 213: the number of finished simulations
    \* mercury-orbits.py
    len_t0,                 \* input: len(t[0]), the samples of the first planet
    ref_time,               \* line 191: the times of the longest .aei file
    NB_FRAMES,              \* the number of frames (line 18, option frames, line 237)
    t_min,                  \* option t_min, then line 206 or 209; NoTime if not given
    t_max,                  \* option t_max, then line 198 or 201; NoTime if not given
    delta_t,                \* line 173
    id_min,                 \* lines 205-209
    id_max,                 \* lines 197-201
    ts_per_frame,           \* lines 230-237
    frame_i,                \* the loop of line 258
    id_time                 \* per frame rendered, the index of line 259-263

inputVars == <<element_out, aei>>
resultVars == <<mean_motion_res, longitude_res, extra_mean_motion_res, discovered>>
detectorVars == <<error, element_out, aei, nb_planets, a, period, mean_motion_res,
                  longitude_res, extra_mean_motion_res, last, inner, outer, planet,
                  resonances, todo, discovered>>
checkVars == <<argv, avakas, simu_list, options, arg, simu, simulation_status, calls,
               finished>>
orbitsVars == <<len_t0, ref_time, NB_FRAMES, t_min, t_max, delta_t, id_min, id_max,
                ts_per_frame, frame_i, id_time>>
\* What the detector never touches: the harnesses and the other scripts.
harnessVars == <<period_i, max_denominator, fraction, phi_raw, phi_folded, previous,
                 checkVars, orbitsVars>>
vars == <<pc, detectorVars, harnessVars>>

\* None, where the script holds a Fraction or None.
None == [numerator |-> 0, denominator |-> 0]
NoError == ""
Unread == <<>>

\* mercury-check-simulation.py before it starts (lines 34-44).
NoOptions ==
    [isRestart |-> FALSE, isForcedStart |-> FALSE, isForcedContinue |-> FALSE,
     isContinue |-> FALSE, showFinished |-> FALSE, isProblem |-> FALSE,
     WALLTIME |-> FALSE]

\* The other scripts while one script or harness runs: they have no input and
\* have not started.
CheckIdle ==
    /\ argv = <<>>
    /\ avakas = FALSE
    /\ simu_list = <<>>
    /\ options = NoOptions
    /\ arg = 0
    /\ simu = 0
    /\ simulation_status = <<>>
    /\ calls = <<>>
    /\ finished = 0

NoTime == -1

OrbitsIdle ==
    /\ len_t0 = 0
    /\ ref_time = <<>>
    /\ NB_FRAMES = 0
    /\ t_min = NoTime
    /\ t_max = NoTime
    /\ delta_t = None
    /\ id_min = 0
    /\ id_max = 0
    /\ ts_per_frame = None
    /\ frame_i = 0
    /\ id_time = <<>>

\* No earlier run.
NoRun == [ran |-> FALSE, error |-> NoError, mean_motion_res |-> <<>>,
          longitude_res |-> <<>>, extra_mean_motion_res |-> <<>>]

(***************************************************************************)
(* Parameters of the script (lines 24-36).                                 *)
(***************************************************************************)
DENOMINATOR_LIMIT == 30
NUMBER_OF_VALUES == 100
UNCERTAINTY == 5
NB_LAST_POINTS == 50
STD_THRESHOLD == 40
ANGLE_MIN == -180
ANGLE_MAX == 180

(***************************************************************************)
(* Bounds of the model.                                                    *)
(***************************************************************************)
MaxRatioNum == 40           \* numerators of the ratios given to the approximator
MaxRatioDen == 36           \* denominators of the ratios given to the approximator
MaxLimit == 6               \* small denominator limits tried besides DENOMINATOR_LIMIT
MaxAngle == 800             \* raw angles range over -MaxAngle..MaxAngle degrees
MaxPlanets == 3             \* planets of the longest system analysed

Abs(x) == IF x < 0 THEN -x ELSE x

RECURSIVE GCD(_, _)
GCD(x, y) == IF y = 0 THEN Abs(x) ELSE GCD(y, x % y)

(***************************************************************************)
(* fractions.Fraction(n, d): the value n/d in lowest terms.                *)
(***************************************************************************)
Fraction(n, d) ==
    LET g == GCD(n, d)
    IN  [numerator |-> n \div g, denominator |-> d \div g]

(***************************************************************************)
(* The while loop of Fraction.limit_denominator: the continued-fraction    *)
(* expansion of n/d, stopped before the first convergent whose denominator *)
(* exceeds max_den.                                                        *)
(***************************************************************************)
RECURSIVE ConvergentLoop(_, _, _, _, _, _, _)
ConvergentLoop(p0, q0, p1, q1, n, d, max_den) ==
    LET quot == n \div d           \* a = n//d
        q2   == q0 + quot * q1
    IN  IF q2 > max_den
        THEN [p0 |-> p0, q0 |-> q0, p1 |-> p1, q1 |-> q1, n |-> n, d |-> d]
        ELSE ConvergentLoop(p1, q1, p0 + quot * p1, q2, d, n - quot * d, max_den)

(***************************************************************************)
(* abs(bound2 - self) <= abs(bound1 - self) of limit_denominator, for      *)
(* bound2 = p1/q1, bound1 with denominator b1d, self with denominator      *)
(* self_den, and d the remainder the loop stopped on.  self lies between   *)
(* the two bounds, which are 1/(q1*b1d) apart, and bound2 is               *)
(* d/(q1*self_den) away from self, so the test is 2*d*b1d <= self_den.     *)
(* It is written with a division so that no product exceeds the numbers    *)
(* of the ratio itself.                                                    *)
(***************************************************************************)
Bound2NotFarther(d, b1d, self_den) == d <= self_den \div (2 * b1d)

(***************************************************************************)
(* Fraction.limit_denominator(max_den) of self = [numerator, denominator]. *)
(***************************************************************************)
LimitDenominatorNoTieRule(self, max_den) ==
    IF self.denominator <= max_den THEN self
    ELSE LET s == ConvergentLoop(0, 1, 1, 0, self.numerator, self.denominator, max_den)
             k == (max_den - s.q0) \div s.q1
             bound1 == Fraction(s.p0 + k * s.p1, s.q0 + k * s.q1)
             bound2 == Fraction(s.p1, s.q1)
         IN  IF 2 * s.d * bound1.denominator < self.denominator
             THEN bound2 ELSE bound1

LimitDenominatorStrictBound(self, max_den) ==
    IF self.denominator < max_den \/ self.denominator = 1 THEN self
    ELSE LET lim == IF max_den > 1 THEN max_den - 1 ELSE 1
             s == ConvergentLoop(0, 1, 1, 0, self.numerator, self.denominator, lim)
             k == (lim - s.q0) \div s.q1
             bound1 == Fraction(s.p0 + k * s.p1, s.q0 + k * s.q1)
             bound2 == Fraction(s.p1, s.q1)
         IN  IF 2 * s.d * bound1.denominator <= self.denominator
             THEN bound2 ELSE bound1

LimitDenominatorConvergentOnly(self, max_den) ==
    IF self.denominator <= max_den THEN self
    ELSE LET s == ConvergentLoop(0, 1, 1, 0, self.numerator, self.denominator, max_den)
         IN  Fraction(s.p1, s.q1)

LimitDenominator(self, max_den) ==
    IF self.denominator <= max_den THEN self
    ELSE LET s == ConvergentLoop(0, 1, 1, 0, self.numerator, self.denominator, max_den)
             k == (max_den - s.q0) \div s.q1
             bound1 == Fraction(s.p0 + k * s.p1, s.q0 + k * s.q1)
             bound2 == Fraction(s.p1, s.q1)
         IN  IF Bound2NotFarther(s.d, bound1.denominator, self.denominator)
             THEN bound2 ELSE bound1

(***************************************************************************)
(* Lines 299-304 for one value: phi % 360, then the two masks too_low and  *)
(* too_high are taken, then each masked value is shifted by 360.           *)
(***************************************************************************)
FoldNoModulo(x) ==
    LET too_low  == x < ANGLE_MIN
        too_high == x > ANGLE_MAX
        lifted   == IF too_low THEN x + 360 ELSE x
    IN  IF too_high THEN lifted - 360 ELSE lifted

FoldHighInclusive(x) ==
    LET m == x % 360
    IN  IF m >= ANGLE_MAX THEN m - 360 ELSE m

FoldModuloOnly(x) == x % 360

Fold(x) ==
    LET m        == x % 360
        too_low  == m < ANGLE_MIN
        too_high == m > ANGLE_MAX
        lifted   == IF too_low THEN m + 360 ELSE m
    IN  IF too_high THEN lifted - 360 ELSE lifted

FoldArray(arr) == [i \in DOMAIN arr |-> Fold(arr[i])]

(***************************************************************************)
(* Exact arithmetic on Fractions, for the period ratios of lines 250-263.  *)
(***************************************************************************)
LCM(x, y) == (x \div GCD(x, y)) * y

FrInt(x) == [numerator |-> x, denominator |-> 1]

FrAdd(f, g) ==
    LET l == LCM(f.denominator, g.denominator)
    IN  Fraction(f.numerator * (l \div f.denominator)
                   + g.numerator * (l \div g.denominator), l)

FrNeg(f) == [numerator |-> -f.numerator, denominator |-> f.denominator]

FrSub(f, g) == FrAdd(f, FrNeg(g))

FrMul(f, g) ==
    LET g1 == GCD(f.numerator, g.denominator)
        g2 == GCD(g.numerator, f.denominator)
    IN  [numerator   |-> (f.numerator \div g1) * (g.numerator \div g2),
         denominator |-> (f.denominator \div g2) * (g.denominator \div g1)]

FrDiv(f, g) == FrMul(f, [numerator |-> g.denominator, denominator |-> g.numerator])

FrLess(f, g) == FrSub(f, g).numerator < 0

(***************************************************************************)
(* Line 144: period = a**1.5.  The semi-major axes of the model are        *)
(* perfect squares, for which a**1.5 is the cube of the square root.       *)
(***************************************************************************)
Pow15(x) == LET root == CHOOSE r \in 0 .. x : r * r = x IN root * root * root

(***************************************************************************)
(* Lines 177-192 and 227-242: the parsing of the last NB_LAST_POINTS rows  *)
(* of an .aei file.  A row is [t, a, g, n, M, parsed]: parsed is the number*)
(* of the five float() conversions of the try block that succeed before    *)
(* one raises (5 for a well-formed row).  The names ti, ai, gi, ni, Mi     *)
(* keep their value from one row to the next and from one file to the      *)
(* next; cur.defined counts those that are bound.                          *)
(***************************************************************************)
LastLines(lines) ==
    SubSeq(lines,
           IF Len(lines) > NB_LAST_POINTS THEN Len(lines) - NB_LAST_POINTS + 1 ELSE 1,
           Len(lines))

\* The names after the try block has run on rows 1..j: each name holds the
\* value of the latest row whose conversion reached it, or what it held before.
LatestRow(lines, j, need) ==
    LET reached == {k \in 1 .. j : lines[k].parsed >= need}
    IN  IF reached = {} THEN 0
        ELSE CHOOSE k \in reached : \A other \in reached : other <= k

ParseLines(cur, lines, j) ==
    LET kt == LatestRow(lines, j, 1)
        ka == LatestRow(lines, j, 2)
        kg == LatestRow(lines, j, 3)
        kn == LatestRow(lines, j, 4)
        kM == LatestRow(lines, j, 5)
        bound == IF kM > 0 THEN 5 ELSE IF kn > 0 THEN 4 ELSE IF kg > 0 THEN 3
                 ELSE IF ka > 0 THEN 2 ELSE IF kt > 0 THEN 1 ELSE 0
    IN  [ti |-> IF kt > 0 THEN lines[kt].t ELSE cur.ti,
         ai |-> IF ka > 0 THEN lines[ka].a ELSE cur.ai,
         gi |-> IF kg > 0 THEN lines[kg].g ELSE cur.gi,
         ni |-> IF kn > 0 THEN lines[kn].n ELSE cur.ni,
         Mi |-> IF kM > 0 THEN lines[kM].M ELSE cur.Mi,
         defined |-> IF bound > cur.defined THEN bound ELSE cur.defined]

EmptyTrack == [t |-> <<>>, a |-> <<>>, g |-> <<>>, n |-> <<>>, M |-> <<>>]

\* The for loop over the rows: after each row the five names are appended,
\* ti first and Mi last (lines 188-192, 238-242); appending an unbound name
\* raises NameError and ends the script, after the appends of the names
\* before it.
ReadLines(lines, cur) ==
    LET after == [j \in 0 .. Len(lines) |-> ParseLines(cur, lines, j)]
        failed == {j \in 1 .. Len(lines) : after[j].defined < 5}
        first_failed == IF failed = {} THEN Len(lines) + 1
                        ELSE CHOOSE j \in failed : \A other \in failed : j <= other
        appended(name) == IF failed # {} /\ after[first_failed].defined >= name
                          THEN first_failed
                          ELSE first_failed - 1
    IN  [last  |-> after[IF failed = {} THEN Len(lines) ELSE first_failed],
         track |-> [t |-> [j \in 1 .. appended(1) |-> after[j].ti],
                    a |-> [j \in 1 .. appended(2) |-> after[j].ai],
                    g |-> [j \in 1 .. appended(3) |-> after[j].gi],
                    n |-> [j \in 1 .. appended(4) |-> after[j].ni],
                    M |-> [j \in 1 .. appended(5) |-> after[j].Mi]],
         error |-> IF failed = {} THEN NoError ELSE "NameError"]

ReadAei(file, cur) == ReadLines(LastLines(file), cur)

(***************************************************************************)
(* Lines 250-272: the candidate resonances of a pair.                      *)
(***************************************************************************)
PeriodsWithEndpoint(period_inner, period_outer) ==
    LET periodRatio == Fraction(period_outer, period_inner)
        uncertainty == Fraction(UNCERTAINTY, 100)
        lowest      == FrMul(periodRatio, FrSub(FrInt(1), uncertainty))
        periodMax   == FrMul(periodRatio, FrAdd(FrInt(1), uncertainty))
        periodMin   == IF FrLess(lowest, FrInt(1)) THEN FrInt(1) ELSE lowest
        periodWidth == FrSub(periodMax, periodMin)
        deltaPeriod == FrDiv(periodWidth, FrInt(NUMBER_OF_VALUES - 1))
    IN  [i \in 0 .. NUMBER_OF_VALUES - 1 |->
            FrAdd(periodMin, FrMul(deltaPeriod, FrInt(i)))]

Periods(period_inner, period_outer) ==
    LET periodRatio == Fraction(period_outer, period_inner)
        uncertainty == Fraction(UNCERTAINTY, 100)
        lowest      == FrMul(periodRatio, FrSub(FrInt(1), uncertainty))
        periodMax   == FrMul(periodRatio, FrAdd(FrInt(1), uncertainty))
        periodMin   == IF FrLess(lowest, FrInt(1)) THEN FrInt(1) ELSE lowest
        periodWidth == FrSub(periodMax, periodMin)
        deltaPeriod == FrDiv(periodWidth, FrInt(NUMBER_OF_VALUES))
    IN  [i \in 0 .. NUMBER_OF_VALUES - 1 |->
            FrAdd(periodMin, FrMul(deltaPeriod, FrInt(i)))]

Resonances(period_inner, period_outer) ==
    LET periods == Periods(period_inner, period_outer)
    IN  {LimitDenominator(periods[i], DENOMINATOR_LIMIT) : i \in DOMAIN periods}

(***************************************************************************)
(* Lines 277-311: the resonant angles and the difference of the longitudes *)
(* of pericentre.  numpy broadcasts an array of one value against a longer *)
(* one; arrays of other unequal lengths do not combine.                    *)
(***************************************************************************)
Order(res) == res.numerator - res.denominator        \* q

Broadcast(l1, l2) ==
    IF l1 = l2 THEN l1 ELSE IF l1 = 1 THEN l2 ELSE IF l2 = 1 THEN l1 ELSE -1

\* Element j of an array combined with arrays of len elements (len >= Len(arr)):
\* an array of one element is repeated.
At(arr, j) == IF Len(arr) = 1 THEN arr[1] ELSE arr[j]

\* lines 286 and 289: g + n
LongOfPeri(trk) == [j \in 1 .. Len(trk.g) |-> trk.g[j] + trk.n[j]]

\* lines 287 and 290: M + long_of_peri
MeanLongitude(trk) == [j \in 1 .. Len(trk.M) |-> trk.M[j] + trk.g[j] + trk.n[j]]

\* line 294: temp_value
TempValue(res, inn, out) ==
    LET mean_longitude_inner == MeanLongitude(inn)
        mean_longitude_outer == MeanLongitude(out)
    IN  [j \in 1 .. Broadcast(Len(out.M), Len(inn.M)) |->
            res.numerator * At(mean_longitude_outer, j)
                - res.denominator * At(mean_longitude_inner, j)]

PhiRowSwappedPericentres(res, inn, out, i) ==
    LET long_of_peri_inner == LongOfPeri(inn)
        long_of_peri_outer == LongOfPeri(out)
        temp_value == TempValue(res, inn, out)
    IN  FoldArray([j \in 1 .. NB_LAST_POINTS |->
            At(temp_value, j) - i * At(long_of_peri_outer, j)
                - (Order(res) - i) * At(long_of_peri_inner, j)])

\* line 297, stored in a row of NB_LAST_POINTS values, then lines 300-304
PhiRow(res, inn, out, i) ==
    LET long_of_peri_inner == LongOfPeri(inn)
        long_of_peri_outer == LongOfPeri(out)
        temp_value == TempValue(res, inn, out)
    IN  FoldArray([j \in 1 .. NB_LAST_POINTS |->
            At(temp_value, j) - i * At(long_of_peri_inner, j)
                - (Order(res) - i) * At(long_of_peri_outer, j)])

Phi(res, inn, out) == [i \in 0 .. Order(res) |-> PhiRow(res, inn, out, i)]

DeltaLongitudeOfMeanLongitudes(inn, out) ==
    LET mean_longitude_inner == MeanLongitude(inn)
        mean_longitude_outer == MeanLongitude(out)
    IN  FoldArray([j \in 1 .. Broadcast(Len(out.g), Len(inn.g)) |->
            At(mean_longitude_outer, j) - At(mean_longitude_inner, j)])

\* delta_longitude after the folding (lines 306-311)
DeltaLongitude(inn, out) ==
    LET long_of_peri_inner == LongOfPeri(inn)
        long_of_peri_outer == LongOfPeri(out)
    IN  FoldArray([j \in 1 .. Broadcast(Len(out.g), Len(inn.g)) |->
            At(long_of_peri_outer, j) - At(long_of_peri_inner, j)])

\* The ValueError cases of lines 292-315: a negative number of rows, arrays
\* that do not broadcast (line 294), a row of the wrong length (line 297),
\* min() of no standard deviation at all (line 315).
RaisesValueError(res, inn, out) ==
    LET len == Broadcast(Len(out.M), Len(inn.M))
    IN  \/ Order(res) < 0
        \/ len = -1
        \/ len \notin {1, NB_LAST_POINTS}

(***************************************************************************)
(* numpy's std (population standard deviation) compared with a threshold:  *)
(* sqrt(sum((x - mean)^2) / N) < thr, in integers.                         *)
(***************************************************************************)
RECURSIVE SumSeq(_, _)
SumSeq(xs, i) == IF i > Len(xs) THEN 0 ELSE xs[i] + SumSeq(xs, i + 1)

RECURSIVE SumSquares(_, _)
SumSquares(xs, i) == IF i > Len(xs) THEN 0 ELSE xs[i] * xs[i] + SumSquares(xs, i + 1)

StdBelowSampleDeviation(xs, thr) ==
    LET len == Len(xs)
        sum == SumSeq(xs, 1)
    IN  len > 1 /\ len * SumSquares(xs, 1) - sum * sum < thr * thr * len * (len - 1)

StdBelow(xs, thr) ==
    LET len == Len(xs)
        sum == SumSeq(xs, 1)
    IN  len * SumSquares(xs, 1) - sum * sum < thr * thr * len * len

LibratesLastAngle(res, inn, out) ==
    StdBelow(PhiRow(res, inn, out, Order(res)), STD_THRESHOLD)

LibratesEveryAngle(res, inn, out) ==
    \A i \in 0 .. Order(res) : StdBelow(PhiRow(res, inn, out, i), STD_THRESHOLD)

\* min(phi.std(1)) < STD_THRESHOLD (lines 315-317)
Librates(res, inn, out) ==
    \E i \in 0 .. Order(res) : StdBelow(PhiRow(res, inn, out, i), STD_THRESHOLD)

(***************************************************************************)
(* Lines 320-329: the bookkeeping of an accepted resonance.                *)
(***************************************************************************)
AppendExtraAliased(extra, idx, res) == [i \in DOMAIN extra |-> Append(extra[i], res)]

\* extra_mean_motion_res[planet].append(res): the sublists are distinct lists
\* (line 151), so only the list of the pair grows.
AppendExtra(extra, idx, res) == [extra EXCEPT ![idx] = Append(@, res)]

RecordMainFirstAccepted(main, idx, res) ==
    IF main[idx] = None THEN [main EXCEPT ![idx] = res] ELSE main

RecordMainLargest(main, idx, res) ==
    IF main[idx] = None THEN [main EXCEPT ![idx] = res]
    ELSE IF main[idx].numerator < res.numerator THEN [main EXCEPT ![idx] = res]
    ELSE main

RecordMainReplacesOnTie(main, idx, res) ==
    IF main[idx] = None THEN [main EXCEPT ![idx] = res]
    ELSE IF main[idx].numerator >= res.numerator THEN [main EXCEPT ![idx] = res]
    ELSE main

RecordMain(main, idx, res) ==
    IF main[idx] = None THEN [main EXCEPT ![idx] = res]
    ELSE IF main[idx].numerator > res.numerator THEN [main EXCEPT ![idx] = res]
    ELSE main

RecordExtraNewOnly(main, extra, idx, res) ==
    IF main[idx] = None THEN extra
    ELSE AppendExtra(extra, idx, res)

RecordExtraEveryAccepted(main, extra, idx, res) ==
    IF main[idx] = None THEN AppendExtra(extra, idx, res)
    ELSE IF main[idx].numerator > res.numerator THEN AppendExtra(extra, idx, main[idx])
    ELSE AppendExtra(extra, idx, res)

RecordExtra(main, extra, idx, res) ==
    IF main[idx] = None THEN extra
    ELSE IF main[idx].numerator > res.numerator THEN AppendExtra(extra, idx, main[idx])
    ELSE AppendExtra(extra, idx, res)

(***************************************************************************)
(* The systems analysed.  A planet is described by the square root of its  *)
(* semi-major axis in element.out and by its .aei file: the number of rows,*)
(* angles that advance by a fixed step from one row to the next, and at    *)
(* most one malformed row (bad = its index, 0 for none; bad_parsed = the   *)
(* number of columns of that row that still convert).  aei_root is the     *)
(* square root of the semi-major axis in the rows of the .aei file: the    *)
(* same as in element.out, unless the two files disagree.                  *)
(***************************************************************************)
Body(root, rows, M0, dM, g0, dg, n0, bad, bad_parsed) ==
    [root |-> root, aei_root |-> root, rows |-> rows, M0 |-> M0, dM |-> dM,
     g0 |-> g0, dg |-> dg, n0 |-> n0, bad |-> bad, bad_parsed |-> bad_parsed]

\* A planet whose .aei file gives another semi-major axis than element.out.
Drifted(b, aei_root) == [b EXCEPT !.aei_root = aei_root]

MakeFile(b) ==
    [j \in 1 .. b.rows |->
        [t |-> j, a |-> b.aei_root * b.aei_root,
         g |-> b.g0 + b.dg * j, n |-> b.n0, M |-> b.M0 + b.dM * j,
         parsed |-> IF j = b.bad THEN b.bad_parsed ELSE 5]]

Chains ==
    { \* equal periods: twelve candidates, three of them librate
      << Body(98, 50, 0, 77, 0, 13, 0, 0, 5),  Body(98, 50, 3, 0, 50, 0, 0, 0, 5) >>,
      \* a chain of pairs of two candidates each
      << Body(98, 50, 10, 31, 20, 0, 5, 0, 5), Body(97, 50, 40, 30, 100, 0, 7, 0, 5),
         Body(96, 50, 3, 0, 50, 0, 0, 0, 5),   Body(95, 50, 0, 77, 0, 13, 0, 0, 5) >>,
      << Body(98, 50, 0, 77, 0, 13, 0, 0, 5),  Body(97, 50, 0, 29, 0, 0, 0, 0, 5),
         Body(96, 50, 0, 30, 0, 0, 0, 0, 5) >>,
      \* files longer than NB_LAST_POINTS rows, no candidate librates
      << Body(98, 52, 0, 30, 0, 7, 0, 0, 5),   Body(97, 52, 0, 77, 0, 13, 0, 0, 5) >>,
      \* one-row files, then a full one
      << Body(98, 1, 10, 31, 20, 0, 5, 0, 5),  Body(97, 1, 40, 30, 100, 0, 7, 0, 5),
         Body(96, 50, 0, 77, 0, 13, 0, 0, 5) >>,
      \* a planet without any row in the middle of the chain
      << Body(98, 50, 10, 31, 20, 0, 5, 0, 5), Body(97, 0, 0, 0, 0, 0, 0, 0, 5),
         Body(96, 50, 40, 30, 100, 0, 7, 0, 5) >>,
      \* a first planet without any row
      << Body(98, 0, 0, 0, 0, 0, 0, 0, 5),     Body(97, 1, 40, 30, 100, 0, 7, 0, 5) >>,
      \* a first planet without any row, then a file that starts malformed
      << Body(98, 0, 0, 0, 0, 0, 0, 0, 5),     Body(97, 50, 40, 30, 100, 0, 7, 1, 2) >>,
      \* a short file, outer period well above the inner one
      << Body(50, 50, 10, 31, 20, 0, 5, 0, 5), Body(51, 3, 40, 30, 100, 0, 7, 0, 5) >>,
      \* outer period below the inner one: a candidate below 1
      << Body(90, 50, 10, 31, 20, 0, 5, 0, 5), Body(88, 50, 40, 30, 100, 0, 7, 0, 5) >>,
      \* outer period far below the inner one: one candidate
      << Body(98, 50, 10, 31, 20, 0, 5, 0, 5), Body(96, 50, 40, 30, 100, 0, 7, 0, 5) >>,
      \* a malformed row inside a file, and a malformed first row
      << Body(98, 50, 10, 31, 20, 0, 5, 20, 2), Body(97, 50, 40, 30, 100, 0, 7, 1, 0) >>,
      \* the first file starts malformed
      << Body(98, 50, 10, 31, 20, 0, 5, 1, 3), Body(97, 50, 40, 30, 100, 0, 7, 0, 5) >>,
      \* the .aei files give other semi-major axes than element.out
      << Drifted(Body(98, 50, 10, 31, 20, 0, 5, 0, 5), 50),
         Drifted(Body(97, 50, 40, 30, 100, 0, 7, 0, 5), 51) >> }

\* Every chain, and every prefix of at least two and at most MaxPlanets planets.
Systems ==
    UNION { { SubSeq(c, 1, len) : len \in 2 .. (IF Len(c) < MaxPlanets THEN Len(c) ELSE MaxPlanets) } :
            c \in Chains }

(***************************************************************************)
(* The script.                                                             *)
(***************************************************************************)
\* The state before the script reads anything, for one of the given systems.
Start(systems) ==
    /\ pc = "element_out"
    /\ error = NoError
    /\ \E sys \in systems :
          /\ element_out = [i \in DOMAIN sys |-> sys[i].root * sys[i].root]
          /\ aei = [i \in DOMAIN sys |-> MakeFile(sys[i])]
    /\ nb_planets = 0
    /\ a = <<>>
    /\ period = <<>>
    /\ mean_motion_res = <<>>
    /\ longitude_res = <<>>
    /\ extra_mean_motion_res = <<>>
    /\ last = [ti |-> 0, ai |-> 0, gi |-> 0, ni |-> 0, Mi |-> 0, defined |-> 0]
    /\ inner = EmptyTrack
    /\ outer = EmptyTrack
    /\ planet = 0
    /\ resonances = {}
    /\ todo = {}
    /\ discovered = <<>>
    /\ period_i = <<1, 1>>
    /\ max_denominator = DENOMINATOR_LIMIT
    /\ fraction = None
    /\ phi_raw = <<>>
    /\ phi_folded = <<>>
    /\ previous = NoRun
    /\ CheckIdle
    /\ OrbitsIdle

Init == Start(Systems)

\* lines 123-151
ReadElementOut ==
    /\ pc = "element_out"
    /\ nb_planets' = Len(element_out)
    /\ a' = element_out
    /\ period' = [i \in DOMAIN element_out |-> Pow15(element_out[i])]
    /\ mean_motion_res' = [i \in 1 .. Len(element_out) - 1 |-> None]
    /\ longitude_res' = [i \in 1 .. Len(element_out) - 1 |-> FALSE]
    /\ extra_mean_motion_res' = [i \in 1 .. Len(element_out) - 1 |-> <<>>]
    /\ discovered' = [i \in 1 .. Len(element_out) - 1 |-> <<>>]
    /\ pc' = "first_aei"
    /\ UNCHANGED <<error, inputVars, last, inner, outer, planet, resonances, todo>>
    /\ UNCHANGED harnessVars

\* lines 165-198, every row appended
ReadFirstAei ==
    /\ pc = "first_aei"
    /\ LET r == ReadAei(aei[1], last)
       IN  /\ r.error = NoError
           /\ outer' = r.track
           /\ last' = r.last
    /\ planet' = 0
    /\ pc' = IF nb_planets - 1 > 0 THEN "next_aei" ELSE "done"
    /\ UNCHANGED <<error, inputVars, nb_planets, a, period, resultVars, inner,
                   resonances, todo>>
    /\ UNCHANGED harnessVars

\* lines 165-192, stopped by the NameError of an append
FirstAeiNameError ==
    /\ pc = "first_aei"
    /\ LET r == ReadAei(aei[1], last)
       IN  /\ r.error # NoError
           /\ outer' = r.track
           /\ last' = r.last
           /\ error' = r.error
    /\ pc' = "error"
    /\ UNCHANGED <<inputVars, nb_planets, a, period, resultVars, inner, planet,
                   resonances, todo>>
    /\ UNCHANGED harnessVars

\* lines 203-247, every row appended
ReadNextAei ==
    /\ pc = "next_aei"
    /\ inner' = outer
    /\ LET r == ReadAei(aei[planet + 2], last)
       IN  /\ r.error = NoError
           /\ outer' = r.track
           /\ last' = r.last
    /\ pc' = "candidates"
    /\ UNCHANGED <<error, inputVars, nb_planets, a, period, resultVars, planet,
                   resonances, todo>>
    /\ UNCHANGED harnessVars

\* lines 203-242, stopped by the NameError of an append
NextAeiNameError ==
    /\ pc = "next_aei"
    /\ inner' = outer
    /\ LET r == ReadAei(aei[planet + 2], last)
       IN  /\ r.error # NoError
           /\ outer' = r.track
           /\ last' = r.last
           /\ error' = r.error
    /\ pc' = "error"
    /\ UNCHANGED <<inputVars, nb_planets, a, period, resultVars, planet,
                   resonances, todo>>
    /\ UNCHANGED harnessVars

CandidatesFromTrack ==
    /\ pc = "candidates"
    /\ resonances' =
           IF Len(inner.a) > 0 /\ Len(outer.a) > 0
           THEN Resonances(Pow15(inner.a[Len(inner.a)]), Pow15(outer.a[Len(outer.a)]))
           ELSE Resonances(period[planet + 1], period[planet + 2])
    /\ todo' = resonances'
    /\ pc' = "resonance"
    /\ UNCHANGED <<error, inputVars, nb_planets, a, period, resultVars, last, inner,
                   outer, planet>>
    /\ UNCHANGED harnessVars

\* lines 249-272
Candidates ==
    /\ pc = "candidates"
    /\ resonances' = Resonances(period[planet + 1], period[planet + 2])
    /\ todo' = resonances'
    /\ pc' = "resonance"
    /\ UNCHANGED <<error, inputVars, nb_planets, a, period, resultVars, last, inner,
                   outer, planet>>
    /\ UNCHANGED harnessVars

TestCandidateSamePair(choices) ==
    /\ pc = "resonance"
    /\ \E res \in choices :
          /\ ~RaisesValueError(res, inner, outer)
          /\ todo' = todo \ {res}
          /\ IF Librates(res, inner, outer)
             THEN /\ mean_motion_res' = RecordMain(mean_motion_res, planet + 1, res)
                  /\ extra_mean_motion_res' =
                         RecordExtra(mean_motion_res, extra_mean_motion_res, planet + 1, res)
                  /\ discovered' = [discovered EXCEPT ![planet + 1] = Append(@, res)]
             ELSE UNCHANGED <<mean_motion_res, extra_mean_motion_res, discovered>>
          /\ longitude_res' =
                 IF StdBelow(DeltaLongitude(inner, outer), STD_THRESHOLD)
                 THEN [longitude_res EXCEPT ![planet + 1] = TRUE]
                 ELSE longitude_res
    /\ IF todo' # {} THEN UNCHANGED <<pc, planet>>
       ELSE IF planet + 1 < nb_planets - 1
            THEN pc' = "candidates" /\ UNCHANGED planet
            ELSE pc' = "done" /\ UNCHANGED planet
    /\ UNCHANGED <<error, inputVars, nb_planets, a, period, last, inner, outer,
                   resonances>>
    /\ UNCHANGED harnessVars

\* lines 276-334 for one candidate, the next of the loop being one of choices,
\* and the step of the loops of lines 276 and 201 that follows it
TestCandidate(choices) ==
    /\ pc = "resonance"
    /\ \E res \in choices :
          /\ ~RaisesValueError(res, inner, outer)
          /\ todo' = todo \ {res}
          /\ IF Librates(res, inner, outer)
             THEN /\ mean_motion_res' = RecordMain(mean_motion_res, planet + 1, res)
                  /\ extra_mean_motion_res' =
                         RecordExtra(mean_motion_res, extra_mean_motion_res, planet + 1, res)
                  /\ discovered' = [discovered EXCEPT ![planet + 1] = Append(@, res)]
             ELSE UNCHANGED <<mean_motion_res, extra_mean_motion_res, discovered>>
          /\ longitude_res' =
                 IF StdBelow(DeltaLongitude(inner, outer), STD_THRESHOLD)
                 THEN [longitude_res EXCEPT ![planet + 1] = TRUE]
                 ELSE longitude_res
    /\ IF todo' # {} THEN UNCHANGED <<pc, planet>>
       ELSE IF planet + 1 < nb_planets - 1
            THEN pc' = "next_aei" /\ planet' = planet + 1
            ELSE pc' = "done" /\ UNCHANGED planet
    /\ UNCHANGED <<error, inputVars, nb_planets, a, period, last, inner, outer,
                   resonances>>
    /\ UNCHANGED harnessVars

\* The candidates are taken in any order out of the set of line 272.
TestResonance == TestCandidate(todo)

\* lines 276-315 for one candidate, stopped by a ValueError
ResonanceValueError ==
    /\ pc = "resonance"
    /\ \E res \in todo :
          /\ RaisesValueError(res, inner, outer)
          /\ todo' = todo \ {res}
    /\ error' = "ValueError"
    /\ pc' = "error"
    /\ UNCHANGED <<inputVars, nb_planets, a, period, resultVars, last, inner, outer,
                   planet, resonances>>
    /\ UNCHANGED harnessVars

Next ==
    \/ ReadElementOut
    \/ ReadFirstAei
    \/ FirstAeiNameError
    \/ ReadNextAei
    \/ NextAeiNameError
    \/ Candidates
    \/ TestResonance
    \/ ResonanceValueError

Spec == Init /\ [][Next]_vars

(***************************************************************************)
(* The script run a second time on the same element.out and .aei files,    *)
(* once the first run has ended (normally or with an exception).  A run    *)
(* starts from nothing but the files; what the first run gave is kept in   *)
(* previous for the comparison of the two runs.  Each run takes the        *)
(* candidates of line 276 in an order of its own.                          *)
(***************************************************************************)
RunAgain ==
    /\ pc \in {"done", "error"}
    /\ ~previous.ran
    /\ previous' = [ran |-> TRUE, error |-> error,
                    mean_motion_res |-> mean_motion_res,
                    longitude_res |-> longitude_res,
                    extra_mean_motion_res |-> extra_mean_motion_res]
    /\ pc' = "element_out"
    /\ error' = NoError
    /\ nb_planets' = 0
    /\ a' = <<>>
    /\ period' = <<>>
    /\ mean_motion_res' = <<>>
    /\ longitude_res' = <<>>
    /\ extra_mean_motion_res' = <<>>
    /\ last' = [ti |-> 0, ai |-> 0, gi |-> 0, ni |-> 0, Mi |-> 0, defined |-> 0]
    /\ inner' = EmptyTrack
    /\ outer' = EmptyTrack
    /\ planet' = 0
    /\ resonances' = {}
    /\ todo' = {}
    /\ discovered' = <<>>
    /\ UNCHANGED <<inputVars, period_i, max_denominator, fraction, phi_raw, phi_folded>>
    /\ UNCHANGED <<checkVars, orbitsVars>>

NextRerun ==
    \/ Next
    \/ RunAgain

SpecRerun == Init /\ [][NextRerun]_vars

(***************************************************************************)
(* A pair in the 2:1 resonance: the outer period is 2.0004 times the inner *)
(* one, 2*L_outer - L_inner - peri_outer is constant.  The pair has fifty  *)
(* candidates; the runs analysed are those that start the loop of line 276 *)
(* at any candidate and go on in ascending order, from the largest         *)
(* candidate back to the smallest, and those that take the candidates in   *)
(* the order of a CPython set (InterpreterOrders).                         *)
(***************************************************************************)
TwoToOneSystems ==
    { << Body(50, 50, 10, 156, 20, 5, 5, 0, 5), Body(63, 50, 40, 75, 100, 11, 7, 0, 5) >> }

Smaller(c, d) == c.numerator * d.denominator < d.numerator * c.denominator

Least(set) == CHOOSE c \in set : \A d \in set : ~Smaller(d, c)

\* The fractions n/d of a sequence of pairs <<n, d>>.
Ratios(pairs) == [k \in DOMAIN pairs |-> Fraction(pairs[k][1], pairs[k][2])]

\* Line 272 for the pairs of the two systems below: list(set(resonances)) as
\* 64-bit CPython iterates it after the insertions of lines 264-269.
InterpreterOrders ==
    {
      \* the pair in the 2:1 resonance, CPython 2.7
      Ratios(<<
           <<31, 16>>, <<33, 16>>, <<2, 1>>, <<45, 23>>, <<56, 29>>,
           <<55, 28>>, <<25, 12>>, <<35, 18>>, <<59, 30>>, <<55, 27>>,
           <<23, 12>>, <<47, 24>>, <<44, 23>>, <<45, 22>>, <<52, 25>>,
           <<27, 14>>, <<60, 29>>, <<23, 11>>, <<33, 17>>, <<37, 19>>,
           <<49, 25>>, <<19, 10>>, <<35, 17>>, <<59, 29>>, <<39, 20>>,
           <<47, 23>>, <<53, 27>>, <<41, 21>>, <<56, 27>>, <<37, 18>>,
           <<31, 15>>, <<43, 22>>, <<27, 13>>, <<39, 19>>, <<49, 24>>,
           <<51, 25>>, <<21, 11>>, <<48, 25>>, <<29, 15>>, <<52, 27>>,
           <<44, 21>>, <<53, 26>>, <<41, 20>>, <<61, 30>>, <<40, 21>>,
           <<48, 23>>, <<25, 13>>, <<21, 10>>, <<43, 21>>, <<29, 14>> >>),
      \* the pair in the 2:1 resonance, CPython 3.11
      Ratios(<<
           <<31, 16>>, <<2, 1>>, <<33, 16>>, <<41, 21>>, <<27, 13>>,
           <<47, 23>>, <<40, 21>>, <<59, 30>>, <<37, 19>>, <<48, 23>>,
           <<39, 20>>, <<60, 29>>, <<56, 27>>, <<29, 15>>, <<45, 22>>,
           <<55, 28>>, <<52, 25>>, <<23, 12>>, <<49, 24>>, <<49, 25>>,
           <<53, 27>>, <<19, 10>>, <<33, 17>>, <<29, 14>>, <<37, 18>>,
           <<21, 11>>, <<53, 26>>, <<23, 11>>, <<35, 18>>, <<27, 14>>,
           <<35, 17>>, <<21, 10>>, <<59, 29>>, <<55, 27>>, <<51, 25>>,
           <<47, 24>>, <<25, 12>>, <<48, 25>>, <<43, 22>>, <<52, 27>>,
           <<31, 15>>, <<56, 29>>, <<41, 20>>, <<44, 23>>, <<39, 19>>,
           <<61, 30>>, <<44, 21>>, <<45, 23>>, <<25, 13>>, <<43, 21>> >>),
      \* the pair with two candidates of numerator 29, CPython 2.7
      Ratios(<<
           <<17, 16>>, <<1, 1>>, <<27, 26>>, <<23, 22>>, <<29, 28>>,
           <<14, 13>>, <<31, 30>>, <<26, 25>>, <<29, 27>>, <<19, 18>>,
           <<27, 25>>, <<24, 23>>, <<25, 23>>, <<22, 21>>, <<31, 29>>,
           <<28, 27>>, <<21, 20>>, <<30, 29>>, <<18, 17>>, <<20, 19>>,
           <<15, 14>>, <<25, 24>>, <<16, 15>>, <<13, 12>> >>),
      \* the pair with two candidates of numerator 29, CPython 3.11
      Ratios(<<
           <<1, 1>>, <<17, 16>>, <<14, 13>>, <<24, 23>>, <<25, 23>>,
           <<31, 29>>, <<29, 27>>, <<23, 22>>, <<27, 25>>, <<25, 24>>,
           <<15, 14>>, <<19, 18>>, <<27, 26>>, <<18, 17>>, <<30, 29>>,
           <<28, 27>>, <<26, 25>>, <<13, 12>>, <<29, 28>>, <<16, 15>>,
           <<21, 20>>, <<20, 19>>, <<31, 30>>, <<22, 21>> >>)
    }

\* The candidates the loop can go on with: any to start with, then the least
\* one above all those tested, and the least one left when there is none; or
\* the next one of an interpreter's order, as long as the loop has followed it.
RotationChoices ==
    LET tested == resonances \ todo
        above  == {d \in todo : \A t \in tested : Smaller(t, d)}
        count  == Cardinality(tested)
        followed == {o \in InterpreterOrders :
                        /\ {o[k] : k \in DOMAIN o} = resonances
                        /\ {o[k] : k \in 1 .. count} = tested}
    IN  (IF tested = {} THEN todo
         ELSE IF above # {} THEN {Least(above)}
         ELSE {Least(todo)})
        \cup {o[count + 1] : o \in followed}

InitRotation == Start(TwoToOneSystems)

TestInRotation == TestCandidate(RotationChoices)

NextRotation ==
    \/ ReadElementOut
    \/ ReadFirstAei
    \/ ReadNextAei
    \/ Candidates
    \/ TestInRotation

SpecRotation == InitRotation /\ [][NextRotation]_vars

(***************************************************************************)
(* A pair with two librating candidates of the same numerator: the outer   *)
(* period is 1.0361 times the inner one, the pair has 24 candidates and    *)
(* 29*L_outer - 28*L_inner - peri_outer and                                *)
(* 29*L_outer - 27*L_inner - 2*peri_outer are constant.  The runs analysed *)
(* take the candidates in the orders of RotationChoices.                   *)
(***************************************************************************)
EqualNumeratorSystems ==
    { << Body(84, 50, 10, 0, 20, 0, 5, 0, 5), Body(85, 50, 40, 80, 100, 110, 7, 0, 5) >> }

InitEqualNumerators == Start(EqualNumeratorSystems)

SpecEqualNumerators == InitEqualNumerators /\ [][NextRotation]_vars

(***************************************************************************)
(* Harness of the approximator: line 267 applied to one ratio.             *)
(***************************************************************************)
Limits == (1 .. MaxLimit) \cup {DENOMINATOR_LIMIT}

\* The detector's variables while a harness runs: nothing was read.
DetectorIdle ==
    /\ error = NoError
    /\ element_out = <<>>
    /\ aei = <<>>
    /\ nb_planets = 0
    /\ a = <<>>
    /\ period = <<>>
    /\ mean_motion_res = <<>>
    /\ longitude_res = <<>>
    /\ extra_mean_motion_res = <<>>
    /\ last = Unread
    /\ inner = Unread
    /\ outer = Unread
    /\ planet = 0
    /\ resonances = {}
    /\ todo = {}
    /\ discovered = <<>>

InitApprox ==
    /\ pc = "ratio"
    /\ period_i \in (1 .. MaxRatioNum) \X (1 .. MaxRatioDen)
    /\ max_denominator \in Limits
    /\ fraction = None
    /\ phi_raw = <<>>
    /\ phi_folded = <<>>
    /\ previous = NoRun
    /\ CheckIdle
    /\ OrbitsIdle
    /\ DetectorIdle

Approximate ==
    /\ pc = "ratio"
    /\ fraction' = LimitDenominator(Fraction(period_i[1], period_i[2]), max_denominator)
    /\ pc' = "approximated"
    /\ UNCHANGED <<period_i, max_denominator, phi_raw, phi_folded, previous>>
    /\ UNCHANGED <<checkVars, orbitsVars>>
    /\ UNCHANGED detectorVars

NextApprox == Approximate

SpecApprox == InitApprox /\ [][NextApprox]_vars

(***************************************************************************)
(* Harness of the folding: lines 300-304 applied to the array holding an   *)
(* angle, the angle one turn later and the angle one turn earlier.         *)
(***************************************************************************)
InitFold ==
    /\ pc = "raw"
    /\ \E x \in (-MaxAngle) .. MaxAngle : phi_raw = <<x, x + 360, x - 360>>
    /\ phi_folded = <<>>
    /\ period_i = <<1, 1>>
    /\ max_denominator = DENOMINATOR_LIMIT
    /\ fraction = None
    /\ previous = NoRun
    /\ CheckIdle
    /\ OrbitsIdle
    /\ DetectorIdle

FoldPhi ==
    /\ pc = "raw"
    /\ phi_folded' = FoldArray(phi_raw)
    /\ pc' = "folded"
    /\ UNCHANGED <<period_i, max_denominator, fraction, phi_raw, previous>>
    /\ UNCHANGED <<checkVars, orbitsVars>>
    /\ UNCHANGED detectorVars

NextFold == FoldPhi

SpecFold == InitFold /\ [][NextFold]_vars

(***************************************************************************)
(* Properties of the approximator (SpecApprox).                            *)
(***************************************************************************)
RatioNum == period_i[1]
RatioDen == period_i[2]

\* |n1/d1 - ratio| <= |n2/d2 - ratio|, by cross-multiplication (d1, d2 > 0)
NotFarther(n1, d1, n2, d2) ==
    Abs(n1 * RatioDen - RatioNum * d1) * d2 <= Abs(n2 * RatioDen - RatioNum * d2) * d1

\* |n1/d1 - ratio| = |n2/d2 - ratio|
EquallyClose(n1, d1, n2, d2) ==
    Abs(n1 * RatioDen - RatioNum * d1) * d2 = Abs(n2 * RatioDen - RatioNum * d2) * d1

\* The numerators worth trying over the denominator m: a numerator beyond
\* floor(ratio * m) + 1 is farther from the ratio than that one.
Numerators(m) == 0 .. ((RatioNum * m) \div RatioDen + 1)

\* C1: the fraction returned for a positive ratio and a limit D >= 1 is in
\* lowest terms, its denominator is at most D, and no fraction with a
\* denominator at most D is closer to the ratio.
C1_BestApproximation ==
    pc = "approximated" =>
        /\ fraction.denominator >= 1
        /\ GCD(fraction.numerator, fraction.denominator) = 1
        /\ fraction.denominator <= max_denominator
        /\ \A m \in 1 .. max_denominator : \A k \in Numerators(m) :
               NotFarther(fraction.numerator, fraction.denominator, k, m)

\* C1 witness: a ratio that the limit does not allow exactly was approximated
\* by a fraction that is neither an integer nor the ratio itself.
C1_Witness ==
    /\ pc = "approximated"
    /\ max_denominator = DENOMINATOR_LIMIT
    /\ Fraction(RatioNum, RatioDen).denominator > max_denominator
    /\ fraction.denominator > 1

\* C2: for coprime p, q with 1 <= q <= max_denominator, approximating p/q
\* returns exactly numerator p and denominator q.
C2_Exactness ==
    (/\ pc = "approximated"
     /\ GCD(RatioNum, RatioDen) = 1
     /\ RatioDen <= max_denominator)
        => fraction = [numerator |-> RatioNum, denominator |-> RatioDen]

\* C2 witness: a coprime p/q whose denominator equals the limit was approximated.
C2_Witness ==
    /\ pc = "approximated"
    /\ GCD(RatioNum, RatioDen) = 1
    /\ RatioDen = max_denominator
    /\ RatioDen > 1
    /\ fraction.denominator = RatioDen

\* C3: when another fraction with a denominator at most D is exactly as close
\* to the ratio as the fraction returned, the fraction returned has the
\* denominator that is not the larger of the two.
C3_TieSmallerDenominator ==
    pc = "approximated" =>
        \A m \in 1 .. max_denominator : \A k \in Numerators(m) :
            (/\ k * fraction.denominator # fraction.numerator * m
             /\ EquallyClose(k, m, fraction.numerator, fraction.denominator))
                => fraction.denominator <= m

\* C3 witness: a tie between the fraction returned and a fraction of strictly
\* larger denominator.
C3_Witness ==
    /\ pc = "approximated"
    /\ \E m \in 1 .. max_denominator : \E k \in Numerators(m) :
           /\ k * fraction.denominator # fraction.numerator * m
           /\ GCD(k, m) = 1
           /\ EquallyClose(k, m, fraction.numerator, fraction.denominator)
           /\ fraction.denominator < m

(***************************************************************************)
(* Properties of the folding (SpecFold).                                   *)
(***************************************************************************)
\* C8 as claimed: every folded value lies in [ANGLE_MIN, ANGLE_MAX).
C8_FoldedHalfOpenBelow ==
    pc = "folded" =>
        \A i \in DOMAIN phi_folded :
            ANGLE_MIN <= phi_folded[i] /\ phi_folded[i] < ANGLE_MAX

\* C8 amended: every folded value lies in (ANGLE_MIN, ANGLE_MAX], and it
\* differs from the raw value by a whole number of turns.
C8_FoldedHalfOpenAbove ==
    pc = "folded" =>
        \A i \in DOMAIN phi_folded :
            /\ ANGLE_MIN < phi_folded[i]
            /\ phi_folded[i] <= ANGLE_MAX
            /\ (phi_raw[i] - phi_folded[i]) % 360 = 0

\* C8 witness: a raw angle half a turn off was folded onto ANGLE_MAX.
C8_Witness ==
    /\ pc = "folded"
    /\ phi_raw[1] = ANGLE_MIN
    /\ phi_folded[1] = ANGLE_MAX

\* C9 as claimed: an angle x with ANGLE_MIN <= x < ANGLE_MAX is unchanged by
\* the folding.
C9_IdempotentHalfOpenBelow ==
    pc = "folded" =>
        \A i \in DOMAIN phi_raw :
            (ANGLE_MIN <= phi_raw[i] /\ phi_raw[i] < ANGLE_MAX)
                => phi_folded[i] = phi_raw[i]

\* C9 amended: an angle x with ANGLE_MIN < x <= ANGLE_MAX is unchanged by the
\* folding.
C9_IdempotentHalfOpenAbove ==
    pc = "folded" =>
        \A i \in DOMAIN phi_raw :
            (ANGLE_MIN < phi_raw[i] /\ phi_raw[i] <= ANGLE_MAX)
                => phi_folded[i] = phi_raw[i]

\* C9 witness: the angle ANGLE_MAX itself was folded and came back unchanged.
C9_Witness ==
    /\ pc = "folded"
    /\ phi_raw[1] = ANGLE_MAX
    /\ phi_folded[1] = phi_raw[1]

\* C10: folding x + 360 and folding x - 360 give the value of folding x.
C10_FullTurnInvariance ==
    pc = "folded" =>
        /\ phi_folded[2] = phi_folded[1]
        /\ phi_folded[3] = phi_folded[1]

\* C10 witness: an angle more than a turn away from the target range was
\* folded together with its two neighbours one turn away.
C10_Witness ==
    /\ pc = "folded"
    /\ phi_raw[1] > 360 + ANGLE_MAX
    /\ phi_raw[2] = phi_raw[1] + 360
    /\ phi_raw[3] = phi_raw[1] - 360
    /\ phi_folded[1] # phi_raw[1]

(***************************************************************************)
(* Properties of the detector (Spec).                                      *)
(***************************************************************************)
SeqToSet(seq) == {seq[i] : i \in DOMAIN seq}

Pairs == DOMAIN mean_motion_res

\* The resonances recorded for pair idx: the main one and the extra ones.
Recorded(idx) ==
    (IF mean_motion_res[idx] = None THEN {} ELSE {mean_motion_res[idx]})
        \cup SeqToSet(extra_mean_motion_res[idx])

InPairLoop == pc \in {"candidates", "resonance"}

WellFormed(file) == \A j \in DOMAIN file : file[j].parsed = 5

\* The samples of the last NB_LAST_POINTS rows of a well-formed file.
TrailingSamples(file) ==
    LET len  == Len(file)
        kept == IF len > NB_LAST_POINTS THEN NB_LAST_POINTS ELSE len
    IN  [t |-> [j \in 1 .. kept |-> file[len - kept + j].t],
         a |-> [j \in 1 .. kept |-> file[len - kept + j].a],
         g |-> [j \in 1 .. kept |-> file[len - kept + j].g],
         n |-> [j \in 1 .. kept |-> file[len - kept + j].n],
         M |-> [j \in 1 .. kept |-> file[len - kept + j].M]]

C4_Shape ==
    pc # "element_out" =>
        /\ nb_planets = Len(element_out)
        /\ Len(mean_motion_res) = nb_planets - 1
        /\ Len(longitude_res) = nb_planets - 1
        /\ Len(extra_mean_motion_res) = nb_planets - 1

C4_Pairing ==
    InPairLoop =>
        /\ planet \in 0 .. nb_planets - 2
        /\ WellFormed(aei[planet + 1]) => inner = TrailingSamples(aei[planet + 1])
        /\ WellFormed(aei[planet + 2]) => outer = TrailingSamples(aei[planet + 2])
        /\ \A i \in Pairs :
               i > planet + 1 =>
                   /\ mean_motion_res[i] = None
                   /\ longitude_res[i] = FALSE
                   /\ extra_mean_motion_res[i] = <<>>

C4_Frame ==
    \A i \in Pairs :
        (i # planet + 1 \/ ~InPairLoop) =>
            /\ mean_motion_res'[i] = mean_motion_res[i]
            /\ longitude_res'[i] = longitude_res[i]
            /\ extra_mean_motion_res'[i] = extra_mean_motion_res[i]

\* C4: for N planets there are N-1 results; while pair (planet, planet+1) is
\* analysed the inner and outer samples are those of the files of planets
\* planet and planet+1 in the order of element.out, the results of later pairs
\* are still empty, and no step changes the result of another pair.
C4_OneResultPerAdjacentPair ==
    /\ [](C4_Shape /\ C4_Pairing)
    /\ [][C4_Frame]_vars

\* C4 witness: three planets, both pairs analysed, a main and an extra resonance
\* for the first pair, neither for the second.
C4_Witness ==
    /\ pc = "done"
    /\ nb_planets = 3
    /\ mean_motion_res[1] # None
    /\ extra_mean_motion_res[1] # <<>>
    /\ mean_motion_res[2] = None
    /\ extra_mean_motion_res[2] = <<>>
    /\ longitude_res[2] = TRUE

\* C5: the main resonance of a pair is one of the candidates that passed the
\* libration test and none of them has a smaller numerator; the pair has no
\* main resonance iff no candidate passed.
C5_PrimarySmallestNumerator ==
    \A i \in Pairs :
        LET passed == SeqToSet(discovered[i])
        IN  /\ mean_motion_res[i] = None <=> passed = {}
            /\ passed # {} =>
                   /\ mean_motion_res[i] \in passed
                   /\ \A c \in passed : mean_motion_res[i].numerator <= c.numerator

\* C5 witness: the loop of a pair completed with three accepted candidates, the
\* main one being the one of smallest numerator and not the first one accepted.
C5_Witness ==
    /\ pc = "done"
    /\ Len(discovered[1]) = 3
    /\ discovered[1][1] # mean_motion_res[1]
    /\ \A c \in SeqToSet(discovered[1]) : mean_motion_res[1].numerator <= c.numerator
    /\ Len(extra_mean_motion_res[1]) = 2

RECURSIVE Without(_, _)
Without(seq, x) ==
    IF seq = <<>> THEN <<>>
    ELSE IF Head(seq) = x THEN Without(Tail(seq), x)
    ELSE <<Head(seq)>> \o Without(Tail(seq), x)

\* C6 as claimed: the extra list is the list of the accepted candidates in the
\* order of their acceptance, without the main one.
C6_DiscoveryOrder ==
    \A i \in Pairs :
        extra_mean_motion_res[i] = Without(discovered[i], mean_motion_res[i])

\* The step at which the accepted candidate number k of a pair enters the extra
\* list: its own acceptance when a candidate accepted before it has a
\* numerator that is not larger; else it became the main resonance, and it
\* enters the list when the first later candidate of strictly smaller
\* numerator displaces it (0: it is still the main resonance).
AppendStep(acc, k) ==
    IF \E j \in 1 .. k - 1 : acc[j].numerator <= acc[k].numerator THEN k
    ELSE LET later == {j \in k + 1 .. Len(acc) : acc[j].numerator < acc[k].numerator}
         IN  IF later = {} THEN 0
             ELSE CHOOSE j \in later : \A other \in later : j <= other

\* C6 amended: the extra list holds the accepted candidates other than the main
\* one, each once, in the order in which they were appended: a candidate that
\* does not become the main resonance is appended when it is accepted, a main
\* resonance is appended when a later candidate displaces it.
C6_AppendOrder ==
    \A i \in Pairs :
        LET acc   == discovered[i]
            extra == extra_mean_motion_res[i]
        IN  /\ Len(extra) = Cardinality({k \in DOMAIN acc : AppendStep(acc, k) # 0})
            /\ \A m \in DOMAIN extra :
                   \E k \in DOMAIN acc :
                       /\ extra[m] = acc[k]
                       /\ AppendStep(acc, k) # 0
                       /\ Cardinality({j \in DOMAIN acc :
                              AppendStep(acc, j) # 0
                                  /\ AppendStep(acc, j) <= AppendStep(acc, k)}) = m

\* C6 witness: a main resonance was displaced after another candidate had been
\* appended, so that it stands behind a candidate accepted after it.
C6_Witness ==
    /\ pc = "done"
    /\ Len(discovered[1]) = 3
    /\ extra_mean_motion_res[1] = <<discovered[1][2], discovered[1][1]>>
    /\ mean_motion_res[1] = discovered[1][3]

\* The population variance of xs times Len(xs)^2.
VarianceTimesN2(xs) == Len(xs) * SumSquares(xs, 1) - SumSeq(xs, 1) * SumSeq(xs, 1)

\* min over the q+1 folded resonant angles of the standard deviation over the
\* window, strictly below STD_THRESHOLD
MinStdBelowThreshold(res) ==
    LET variances == {VarianceTimesN2(Phi(res, inner, outer)[i]) : i \in 0 .. Order(res)}
        smallest  == CHOOSE v \in variances : \A other \in variances : v <= other
    IN  smallest < STD_THRESHOLD * STD_THRESHOLD * NB_LAST_POINTS * NB_LAST_POINTS

\* For the candidate the step takes out of the set.
C7_Step ==
    (pc = "resonance" /\ pc' # "error") =>
        \A c \in todo \ todo' :
            LET accepted == MinStdBelowThreshold(c)
            IN  /\ accepted <=> c \in SeqToSet(discovered'[planet + 1])
                /\ accepted <=>
                       (\/ mean_motion_res'[planet + 1] = c
                        \/ c \in SeqToSet(extra_mean_motion_res'[planet + 1]))

\* C7: a candidate is accepted (recorded as main or extra resonance of its
\* pair) iff the minimum over its q+1 resonant angles of the standard deviation
\* of the folded angle is strictly below STD_THRESHOLD, and nothing but
\* accepted candidates is ever recorded.
C7_AcceptedIffLibrates ==
    /\ [][C7_Step]_vars
    /\ [](\A i \in Pairs : Recorded(i) = SeqToSet(discovered[i]))

\* C7 witness: the loop of a pair completed, some candidates were rejected and
\* none of them is recorded, others were accepted.
C7_Witness ==
    /\ pc = "done"
    /\ nb_planets = 2
    /\ Cardinality(resonances) > Len(discovered[1])
    /\ Len(discovered[1]) >= 2
    /\ \E c \in resonances :
           /\ ~MinStdBelowThreshold(c)
           /\ c \notin Recorded(1)

\* The pairs whose candidate loop has run to its end.
Completed == IF pc = "done" THEN Pairs ELSE {i \in Pairs : i <= planet}

\* Longitude of pericentre (argument of pericentre + longitude of ascending
\* node) of sample j of the trailing window of a file; a window of one sample
\* is compared with every sample of the other body.
Pericentre(file, j) ==
    LET window == TrailingSamples(file)
        k == IF Len(window.g) = 1 THEN 1 ELSE j
    IN  window.g[k] + window.n[k]

WindowLength(file) == Len(TrailingSamples(file).g)

\* The folded difference of the longitudes of pericentre of pair i, outer
\* minus inner, over the trailing window.
PericentreDifference(i) ==
    LET len_in  == WindowLength(aei[i])
        len_out == WindowLength(aei[i + 1])
        len     == IF len_in > len_out THEN len_in ELSE len_out
    IN  [j \in 1 .. len |-> Fold(Pericentre(aei[i + 1], j) - Pericentre(aei[i], j))]

ApsidalStdBelowThreshold(i) ==
    LET diff == PericentreDifference(i)
    IN  VarianceTimesN2(diff) < STD_THRESHOLD * STD_THRESHOLD * Len(diff) * Len(diff)

\* C11: when the analysis of a pair of well-formed files is complete, the
\* apsidal flag of the pair is true iff the standard deviation of the folded
\* difference of the longitudes of pericentre over the trailing window is below
\* STD_THRESHOLD, whatever candidates the pair has and whichever were accepted.
C11_ApsidalFlagIffAligned ==
    \A i \in Completed :
        (WellFormed(aei[i]) /\ WellFormed(aei[i + 1])) =>
            (longitude_res[i] <=> ApsidalStdBelowThreshold(i))

\* C11 witness: one completed pair with the flag and neither main nor extra
\* resonance, another with the flag and a main resonance, and one without the
\* flag.
C11_Witness ==
    /\ pc = "done"
    /\ nb_planets = 3
    /\ longitude_res[2] /\ mean_motion_res[2] = None /\ extra_mean_motion_res[2] = <<>>
    /\ ApsidalStdBelowThreshold(2)
    /\ longitude_res[1] /\ mean_motion_res[1] # None

AllWellFormed == \A i \in DOMAIN aei : WellFormed(aei[i])

EmptyResult(i) ==
    /\ mean_motion_res[i] = None
    /\ extra_mean_motion_res[i] = <<>>
    /\ longitude_res[i] = FALSE

\* C12 as claimed: when a planet of a system of well-formed files has a file
\* without any sample, the script raises nothing, and every completed pair
\* that the planet belongs to has an empty result.
C12_ZeroSamplesEmptyResult ==
    \A i \in DOMAIN aei :
        (AllWellFormed /\ aei[i] = <<>>) =>
            /\ error = NoError
            /\ \A k \in Completed : k \in {i - 1, i} => EmptyResult(k)

\* C12, what the script does: the first candidate of the first pair that the
\* planet without samples belongs to ends the script with a ValueError; the
\* pair has no result, nor has any later pair.
C12_ZeroSamplesValueError ==
    \A i \in DOMAIN aei :
        (AllWellFormed /\ aei[i] = <<>> /\ pc \in {"resonance", "error", "done"}
             /\ planet + 1 \in {i - 1, i}) =>
            /\ pc # "done"
            /\ pc = "resonance" => todo = resonances
            /\ pc = "error" =>
                   /\ error = "ValueError"
                   /\ Cardinality(resonances \ todo) = 1
                   /\ \A k \in Pairs : k >= planet + 1 => EmptyResult(k)

\* C12 witness: the script stopped with a ValueError in the first pair of a
\* three-planet system whose second planet has no sample.
C12_Witness ==
    /\ pc = "error"
    /\ error = "ValueError"
    /\ nb_planets = 3
    /\ aei[2] = <<>>
    /\ aei[1] # <<>>
    /\ aei[3] # <<>>
    /\ AllWellFormed

ShortFile(file) == Len(file) >= 1 /\ Len(file) < NB_LAST_POINTS

\* C13 as claimed: when the files are well-formed, none is empty and some
\* file has fewer than NB_LAST_POINTS rows, the window of a planet holds all
\* the rows of its file and the script raises nothing.
C13_ShortTrackCompletes ==
    (/\ AllWellFormed
     /\ \A i \in DOMAIN aei : Len(aei[i]) >= 1
     /\ \E i \in DOMAIN aei : ShortFile(aei[i])) =>
        /\ error = NoError
        /\ InPairLoop =>
               /\ Len(inner.M) = WindowLength(aei[planet + 1])
               /\ Len(outer.M) = WindowLength(aei[planet + 2])

\* C13, what the script does: the windows do hold all the rows of a short
\* file, but with a window of 2 to NB_LAST_POINTS - 1 rows in the pair under
\* analysis the first candidate tested ends the script with a ValueError.
C13_ShortTrackValueError ==
    (AllWellFormed /\ pc \in {"resonance", "error", "done"}) =>
        /\ Len(inner.M) = WindowLength(aei[planet + 1])
        /\ Len(outer.M) = WindowLength(aei[planet + 2])
        /\ (\E i \in {planet + 1, planet + 2} : Len(aei[i]) \in 2 .. NB_LAST_POINTS - 1) =>
               /\ pc # "done"
               /\ pc = "resonance" => todo = resonances
               /\ pc = "error" => error = "ValueError" /\ EmptyResult(planet + 1)

\* C13 witness: the script stopped with a ValueError on a pair whose outer
\* planet has a file of three rows, the inner one a file of NB_LAST_POINTS rows.
C13_Witness ==
    /\ pc = "error"
    /\ error = "ValueError"
    /\ AllWellFormed
    /\ Len(aei[1]) = NB_LAST_POINTS
    /\ Len(aei[2]) = 3
    /\ Len(outer.M) = 3

\* Every resonant angle of candidate c and the difference of the longitudes
\* of pericentre have a standard deviation of 0.
NoDeviation(c) ==
    /\ \A i \in 0 .. Order(c) : VarianceTimesN2(Phi(c, inner, outer)[i]) = 0
    /\ VarianceTimesN2(DeltaLongitude(inner, outer)) = 0

C14_Step ==
    (pc = "resonance" /\ pc' # "error" /\ Len(inner.M) = 1 /\ Len(outer.M) = 1) =>
        /\ \A c \in todo \ todo' :
               /\ NoDeviation(c)
               /\ \/ mean_motion_res'[planet + 1] = c
                  \/ c \in SeqToSet(extra_mean_motion_res'[planet + 1])
        /\ longitude_res'[planet + 1]
        /\ todo' = {} => SeqToSet(discovered'[planet + 1]) = resonances

\* C14: when the windows of both planets of a pair hold one sample, every
\* resonant angle of a tested candidate and the difference of the longitudes of
\* pericentre have a standard deviation of 0, the candidate is recorded and the
\* apsidal flag of the pair is set; when the loop ends every candidate of the
\* pair has been accepted.
C14_SingleSampleAcceptsAll == [][C14_Step]_vars

\* C14 witness: a completed pair of one-row files, both of its candidates
\* recorded, the flag true.
C14_Witness ==
    /\ pc = "done"
    /\ nb_planets = 2
    /\ Len(aei[1]) = 1
    /\ Len(aei[2]) = 1
    /\ Cardinality(resonances) = 2
    /\ Recorded(1) = resonances
    /\ longitude_res[1]

(***************************************************************************)
(* Properties of two runs on the same files (SpecRerun).                   *)
(***************************************************************************)
BothRunsEnded == previous.ran /\ pc \in {"done", "error"}

\* What the script displays: nothing when an exception ended it.
Displayed(run_error, value) == IF run_error = NoError THEN value ELSE <<>>

\* C15 as claimed: the two runs end alike and give every pair the same main
\* resonance, the same flag and the same list of extra resonances in the same
\* order, whatever the order in which each run iterates over its candidates.
C15_SameResults ==
    BothRunsEnded =>
        /\ error = previous.error
        /\ Displayed(error, mean_motion_res) = Displayed(error, previous.mean_motion_res)
        /\ Displayed(error, longitude_res) = Displayed(error, previous.longitude_res)
        /\ Displayed(error, extra_mean_motion_res)
               = Displayed(error, previous.extra_mean_motion_res)

\* What the earlier run recorded for pair idx: the main resonance and the
\* extra ones.
RecordedBefore(idx) ==
    (IF previous.mean_motion_res[idx] = None THEN {} ELSE {previous.mean_motion_res[idx]})
        \cup SeqToSet(previous.extra_mean_motion_res[idx])

\* The smallest numerator recorded for pair idx belongs to one resonance only.
OneOfSmallestNumerator(idx) ==
    \A c, d \in Recorded(idx) :
        (c.numerator = mean_motion_res[idx].numerator
            /\ d.numerator = mean_motion_res[idx].numerator) => c = d

\* C15 amended: the two runs end alike (both normally or both with the same
\* exception) and, when they end normally, give every pair the same flag and
\* the same recorded resonances, each once, with a main resonance of the same
\* numerator: the same main resonance unless two of the recorded resonances
\* share the smallest numerator.  The order of the extra resonances may
\* differ.
C15_SameResultsUpToExtraOrder ==
    BothRunsEnded =>
        /\ error = previous.error
        /\ error = NoError =>
               /\ longitude_res = previous.longitude_res
               /\ \A i \in Pairs :
                      /\ Recorded(i) = RecordedBefore(i)
                      /\ Len(extra_mean_motion_res[i]) = Len(previous.extra_mean_motion_res[i])
                      /\ mean_motion_res[i].numerator = previous.mean_motion_res[i].numerator
                      /\ OneOfSmallestNumerator(i) =>
                             mean_motion_res[i] = previous.mean_motion_res[i]

\* C15 witness: two runs ended with the same main resonance for the pair and
\* the same two extra resonances, listed in another order in the second run.
C15_Witness ==
    /\ BothRunsEnded
    /\ error = NoError
    /\ mean_motion_res = previous.mean_motion_res
    /\ Recorded(1) = RecordedBefore(1)
    /\ extra_mean_motion_res[1] # previous.extra_mean_motion_res[1]
    /\ Len(extra_mean_motion_res[1]) = 2

(***************************************************************************)
(* Properties of the pair in the 2:1 resonance (SpecRotation).             *)
(***************************************************************************)
TwoToOne == [numerator |-> 2, denominator |-> 1]

\* 2*L_outer - L_inner - peri_outer, folded, is constant over the window.
PhiZeroConstant == VarianceTimesN2(Phi(TwoToOne, inner, outer)[0]) = 0

\* C16: for a pair whose period ratio is 2.0 (2/1 is a candidate) and whose
\* angle 2*L_outer - L_inner - peri_outer is constant, the main resonance is
\* 2/1 from the test of 2/1 on, whatever was accepted before and whatever is
\* accepted after, and 2/1 is not among the extra resonances.
C16_TwoToOnePrimary ==
    (pc \in {"resonance", "done"} /\ TwoToOne \in resonances /\ PhiZeroConstant) =>
        /\ TwoToOne \notin todo => mean_motion_res[planet + 1] = TwoToOne
        /\ TwoToOne \notin SeqToSet(extra_mean_motion_res[planet + 1])

\* C16 witness: the loop of the pair is complete, 2/1 was accepted after two
\* other candidates and is the main resonance; the pericentres are not aligned.
C16_Witness ==
    /\ pc = "done"
    /\ PhiZeroConstant
    /\ Cardinality(resonances) > 40
    /\ Len(discovered[1]) = 3
    /\ discovered[1][3] = TwoToOne
    /\ mean_motion_res[1] = TwoToOne
    /\ Len(extra_mean_motion_res[1]) = 2
    /\ ~longitude_res[1]

(***************************************************************************)
(* Properties of the scan window (Spec).                                   *)
(***************************************************************************)
\* The candidates of the pair under analysis have been computed.
CandidatesKnown == pc \in {"resonance", "done"} \/ (pc = "error" /\ error = "ValueError")

\* The samples of the scan window of the pair under analysis.
CurrentPeriods == Periods(period[planet + 1], period[planet + 2])

\* The upper bound R * (1 + u) of the window is not above the clipped lower
\* bound 1: (100 + UNCERTAINTY) * period_outer <= 100 * period_inner.
WindowNotAboveOne == (100 + UNCERTAINTY) * period[planet + 2] <= 100 * period[planet + 1]

\* C17 as claimed: when the upper bound of the window is not above its clipped
\* lower bound, the samples are all equal, the pair has one candidate, and the
\* script raises nothing.
C17_CollapsedWindowOneCandidate ==
    (CandidatesKnown /\ WindowNotAboveOne) =>
        /\ \A i, j \in DOMAIN CurrentPeriods : CurrentPeriods[i] = CurrentPeriods[j]
        /\ Cardinality(resonances) = 1
        /\ error = NoError

\* C17, what the script does: the samples go down from 1 towards the upper
\* bound, each below the one before; no candidate is above 1, and the pair is
\* analysed to the end only when 1/1 is the only candidate.
C17_InvertedWindowDescends ==
    (CandidatesKnown /\ WindowNotAboveOne) =>
        /\ CurrentPeriods[0] = FrInt(1)
        /\ \A i \in 1 .. NUMBER_OF_VALUES - 1 : FrLess(CurrentPeriods[i], CurrentPeriods[i - 1])
        /\ FrInt(1) \in resonances
        /\ \A c \in resonances : c.numerator <= c.denominator
        /\ pc = "done" => resonances = {FrInt(1)}
        /\ (pc = "error" /\ AllWellFormed) => \E c \in resonances : c.numerator < c.denominator

\* C17 witness: the window of a pair of two well-formed files of
\* NB_LAST_POINTS rows is inverted, the pair has two candidates and the test
\* of the one below 1 ended the script with a ValueError.
C17_Witness ==
    /\ pc = "error"
    /\ error = "ValueError"
    /\ WindowNotAboveOne
    /\ Cardinality(resonances) = 2
    /\ AllWellFormed
    /\ \A i \in DOMAIN aei : Len(aei[i]) = NB_LAST_POINTS

(***************************************************************************)
(* Properties of the resonant angles (SpecRotation).                       *)
(***************************************************************************)
\* phi_k of candidate c at sample j of the windows, before the folding:
\* (p+q) * L_outer - p * L_inner - k * peri_inner - (q-k) * peri_outer, with
\* peri = g + n and L = M + peri for each planet.
ResonantAngle(c, k, j) ==
    LET peri_inner == inner.g[j] + inner.n[j]
        peri_outer == outer.g[j] + outer.n[j]
        L_inner    == inner.M[j] + peri_inner
        L_outer    == outer.M[j] + peri_outer
        q          == c.numerator - c.denominator
    IN  c.numerator * L_outer - c.denominator * L_inner
            - k * peri_inner - (q - k) * peri_outer

\* The series evaluated for candidate c are phi_0 .. phi_q as claimed.
AnglesAsClaimed(c) ==
    LET q == c.numerator - c.denominator
    IN  /\ DOMAIN Phi(c, inner, outer) = 0 .. q
        /\ \A k \in 0 .. q :
               Phi(c, inner, outer)[k]
                   = [j \in 1 .. NB_LAST_POINTS |-> Fold(ResonantAngle(c, k, j))]

C18_Step == pc = "resonance" => \A c \in todo \ todo' : AnglesAsClaimed(c)

\* C18: the test of a candidate (p+q)/p evaluates q+1 series phi_0 .. phi_q of
\* NB_LAST_POINTS values, and phi_k at a sample is the folded value of
\* (p+q) * L_outer - p * L_inner - k * peri_inner - (q-k) * peri_outer.
C18_ResonantAngles == [][C18_Step]_vars

\* C18 witness: candidates of order 1 and of order 31 have been tested.
C18_Witness ==
    /\ pc = "resonance"
    /\ TwoToOne \in resonances \ todo
    /\ \E c \in resonances \ todo : Order(c) = 31
    /\ Len(inner.M) = NB_LAST_POINTS
    /\ Len(outer.M) = NB_LAST_POINTS

\* C19 as claimed: no sample of the window of a pair is below 1, and every
\* candidate is a pair of positive integers with numerator >= denominator, so
\* that its order q is not negative.
C19_CandidatesAtLeastOne ==
    CandidatesKnown =>
        /\ \A i \in DOMAIN CurrentPeriods : ~FrLess(CurrentPeriods[i], FrInt(1))
        /\ \A c \in resonances :
               /\ c.denominator > 0
               /\ c.numerator >= c.denominator
               /\ Order(c) >= 0

\* C19, what the script does: the claim holds for the pairs whose window has
\* its upper bound above 1; for the others the first sample is 1 and all other
\* samples are below 1.
C19_AtLeastOneUnlessInverted ==
    (pc = "resonance" /\ todo = resonances) =>
        IF WindowNotAboveOne
        THEN /\ CurrentPeriods[0] = FrInt(1)
             /\ \A i \in 1 .. NUMBER_OF_VALUES - 1 : FrLess(CurrentPeriods[i], FrInt(1))
             /\ \A c \in resonances : c.denominator > 0 /\ c.numerator <= c.denominator
        ELSE /\ \A i \in DOMAIN CurrentPeriods : ~FrLess(CurrentPeriods[i], FrInt(1))
             /\ \A c \in resonances : c.denominator > 0 /\ c.numerator >= c.denominator

\* C19 witness: a candidate below 1 (of order -1) was tested and ended the
\* script with a ValueError; the last sample of the window is below 1.
C19_Witness ==
    /\ pc = "error"
    /\ error = "ValueError"
    /\ Len(inner.M) = NB_LAST_POINTS
    /\ Len(outer.M) = NB_LAST_POINTS
    /\ \E c \in resonances \ todo : Order(c) = -1
    /\ FrLess(CurrentPeriods[NUMBER_OF_VALUES - 1], FrInt(1))

\* The scan window of the pair under analysis: R * (1 - u) clipped to 1, and
\* R * (1 + u), for the period ratio R = period_outer / period_inner.
WindowLower ==
    LET unclipped == Fraction((100 - UNCERTAINTY) * period[planet + 2], 100 * period[planet + 1])
    IN  IF FrLess(unclipped, FrInt(1)) THEN FrInt(1) ELSE unclipped

WindowUpper == Fraction((100 + UNCERTAINTY) * period[planet + 2], 100 * period[planet + 1])

\* Two successive samples are as far apart as the first two.
EquallySpaced(periods) ==
    \A i \in 1 .. NUMBER_OF_VALUES - 1 :
        FrSub(periods[i], periods[i - 1]) = FrSub(periods[1], periods[0])

\* The candidates of the pair have just been computed.
CandidatesFresh == pc = "resonance" /\ todo = resonances

\* C20 as claimed: the samples are equally spaced, the first is the lower
\* bound of the window and the last is its upper bound.
C20_SamplesSpanWindow ==
    CandidatesFresh =>
        /\ EquallySpaced(CurrentPeriods)
        /\ CurrentPeriods[0] = WindowLower
        /\ CurrentPeriods[NUMBER_OF_VALUES - 1] = WindowUpper

\* C20 amended: the samples are equally spaced by (upper - lower) /
\* NUMBER_OF_VALUES, the first is the lower bound of the window and the last
\* is one step short of the upper bound, which is not sampled.
C20_SamplesStopBeforeUpper ==
    CandidatesFresh =>
        LET step == FrDiv(FrSub(WindowUpper, WindowLower), FrInt(NUMBER_OF_VALUES))
        IN  /\ EquallySpaced(CurrentPeriods)
            /\ FrSub(CurrentPeriods[1], CurrentPeriods[0]) = step
            /\ CurrentPeriods[0] = WindowLower
            /\ CurrentPeriods[NUMBER_OF_VALUES - 1] = FrSub(WindowUpper, step)
            /\ \A i \in DOMAIN CurrentPeriods : CurrentPeriods[i] # WindowUpper

\* C20 witness: the samples of a window that is not clipped (lower bound above
\* 1) have been turned into candidates; the last sample is below the upper bound.
C20_Witness ==
    /\ CandidatesFresh
    /\ FrLess(FrInt(1), WindowLower)
    /\ CurrentPeriods[0] = WindowLower
    /\ FrLess(CurrentPeriods[NUMBER_OF_VALUES - 1], WindowUpper)
    /\ Cardinality(resonances) > 1

\* No value stands twice in seq.
NoDuplicate(seq) == \A j, k \in DOMAIN seq : seq[j] = seq[k] => j = k

\* The candidates of the current pair that the loop of line 276 has visited.
Visited == resonances \ todo

C21_Recorded ==
    \A i \in Pairs :
        /\ NoDuplicate(discovered[i])
        /\ NoDuplicate(extra_mean_motion_res[i])
        /\ mean_motion_res[i] \notin SeqToSet(extra_mean_motion_res[i])
        /\ Recorded(i) = SeqToSet(discovered[i])
        /\ Len(extra_mean_motion_res[i]) + (IF mean_motion_res[i] = None THEN 0 ELSE 1)
               = Len(discovered[i])
        /\ extra_mean_motion_res[i] # <<>> => mean_motion_res[i] # None

C21_Candidates ==
    pc = "resonance" =>
        /\ todo \subseteq resonances
        /\ \A c, d \in resonances :
               c.numerator * d.denominator = d.numerator * c.denominator => c = d
        /\ SeqToSet(discovered[planet + 1]) \subseteq Visited

C21_Step ==
    pc = "resonance" =>
        /\ Cardinality(todo \ todo') = 1
        /\ todo' \subseteq todo
        /\ (todo \ todo') \cap Visited = {}
        /\ resonances' = resonances

\* C21: at every step of the candidate loop of a pair each distinct
\* (numerator, denominator) candidate has been tested at most once; the
\* primary and the secondary list hold exactly the candidates accepted so far,
\* each once; the primary is not in the secondary list, and the secondary list
\* is non-empty only if a primary is recorded.
C21_EachCandidateOnce ==
    /\ [](C21_Recorded /\ C21_Candidates)
    /\ [][C21_Step]_vars

\* C21 witness: in the middle of the loop of a pair of twelve candidates, two
\* candidates are accepted, the second displaced the first as primary, and
\* candidates are still to be tested.
C21_Witness ==
    /\ pc = "resonance"
    /\ Cardinality(resonances) = 12
    /\ todo # {}
    /\ Len(discovered[1]) = 2
    /\ mean_motion_res[1] = discovered[1][2]
    /\ extra_mean_motion_res[1] = <<discovered[1][1]>>

\* The semi-major axis of the last sample of a track.
LastAxis(trk) == trk.a[Len(trk.a)]

\* Both tracks of the pair under analysis hold a sample.
TracksHaveSamples == Len(inner.a) > 0 /\ Len(outer.a) > 0

\* C22 as claimed: the candidates of a pair are those of the period ratio
\* (a_outer / a_inner)^1.5 of the semi-major axes of the last samples of the
\* two tracks.
C22_PeriodRatioFromTracks ==
    (CandidatesFresh /\ TracksHaveSamples) =>
        resonances = Resonances(Pow15(LastAxis(inner)), Pow15(LastAxis(outer)))

\* C22 amended: the periods are a^1.5 for the semi-major axes listed in
\* element.out, and the candidates of a pair are those of the ratio of these
\* periods, whatever semi-major axes the tracks hold.
C22_PeriodRatioFromElementOut ==
    /\ pc # "element_out" =>
           /\ a = element_out
           /\ period = [i \in DOMAIN element_out |-> Pow15(element_out[i])]
    /\ CandidatesFresh =>
           resonances = Resonances(Pow15(element_out[planet + 1]),
                                   Pow15(element_out[planet + 2]))

\* C22 witness: the candidates of a pair are known, and the last samples of
\* the tracks hold other semi-major axes than element.out, with another ratio.
C22_Witness ==
    /\ CandidatesFresh
    /\ TracksHaveSamples
    /\ LastAxis(inner) # element_out[planet + 1]
    /\ LastAxis(outer) # element_out[planet + 2]
    /\ LastAxis(outer) * element_out[planet + 1] # LastAxis(inner) * element_out[planet + 2]
    /\ resonances # Resonances(Pow15(LastAxis(inner)), Pow15(LastAxis(outer)))

\* The script has ended, normally or by an exception.
Ended == pc \in {"done", "error"}

\* A statement is left to run: the script is where one of its steps starts.
CanStep ==
    \/ pc \in {"element_out", "first_aei", "next_aei", "candidates"}
    \/ pc = "resonance" /\ todo # {}

\* The steps of one pair: two to read the file and compute the candidates, and
\* one for each candidate, of which there are at most NUMBER_OF_VALUES.
PairSteps == NUMBER_OF_VALUES + 2

\* The number of steps the script can still take, at most.
StepsLeft ==
    LET pairs == Len(element_out) - 1
    IN  CASE pc = "element_out" -> pairs * PairSteps + 2
          [] pc = "first_aei"   -> pairs * PairSteps + 1
          [] pc = "next_aei"    -> (pairs - planet) * PairSteps
          [] pc = "candidates"  -> (pairs - planet) * PairSteps - 1
          [] pc = "resonance"   -> (pairs - planet - 1) * PairSteps + Cardinality(todo)
          [] OTHER              -> 0

C23_Bounded ==
    /\ Cardinality(resonances) <= NUMBER_OF_VALUES
    /\ todo \subseteq resonances
    /\ InPairLoop => planet \in 0 .. nb_planets - 2
    /\ pc = "done" => (planet = nb_planets - 2 /\ todo = {})
    /\ StepsLeft >= 0
    /\ Ended \/ CanStep

\* The loop of line 201 is entered from the first file with planet = 0 and
\* from the end of a pair with the next planet; the candidates of a pair are
\* computed once, when its file has been read; every step leaves fewer steps
\* to take.
C23_SinglePass ==
    /\ StepsLeft' < StepsLeft
    /\ planet' \in {planet, planet + 1}
    /\ planet' = planet + 1 => (pc = "resonance" /\ todo' = {} /\ pc' = "next_aei")
    /\ (pc' = "next_aei" /\ pc # "next_aei") =>
           \/ pc = "first_aei" /\ planet' = 0
           \/ pc = "resonance" /\ planet' = planet + 1
    /\ (pc' = "candidates" /\ pc # "candidates") => (pc = "next_aei" /\ planet' = planet)
    /\ ~Ended

\* C23: for every chain the analysis terminates, normally or by the exception
\* that ends it: every step leaves fewer steps to take, of at most
\* (N - 1) * (NUMBER_OF_VALUES + 2) + 2 for N planets, and a step is left to
\* take until the script has ended.  The pairs are processed in one pass, each
\* at most once and, in a run that ends normally, each exactly once; at most
\* NUMBER_OF_VALUES candidates are tested for a pair.
C23_TerminatesAfterOnePass ==
    /\ []C23_Bounded
    /\ [][C23_SinglePass]_vars

\* C23 witness: a chain of three planets, the run ended normally after the
\* second pair, whose candidates were all tested.
C23_Witness ==
    /\ pc = "done"
    /\ nb_planets = 3
    /\ planet = 1
    /\ Cardinality(resonances) >= 2
    /\ todo = {}

\* The rows of the trailing window of a file, and those of them that are
\* well-formed.
Window(file) == LastLines(file)

RECURSIVE WellFormedRows(_)
WellFormedRows(rows) ==
    IF rows = <<>> THEN <<>>
    ELSE IF Head(rows).parsed = 5 THEN <<Head(rows)>> \o WellFormedRows(Tail(rows))
    ELSE WellFormedRows(Tail(rows))

\* The samples of a sequence of rows.
SamplesOf(rows) ==
    [t |-> [j \in DOMAIN rows |-> rows[j].t],
     a |-> [j \in DOMAIN rows |-> rows[j].a],
     g |-> [j \in DOMAIN rows |-> rows[j].g],
     n |-> [j \in DOMAIN rows |-> rows[j].n],
     M |-> [j \in DOMAIN rows |-> rows[j].M]]

\* A file of the pair under analysis has a malformed row in its window.
MalformedInPair ==
    \/ ~WellFormed(Window(aei[planet + 1]))
    \/ ~WellFormed(Window(aei[planet + 2]))

\* C24 as claimed: a malformed row is skipped; the samples of a track are
\* those of the well-formed rows of the window of the body's own file, and a
\* malformed row does not end the script.
C24_MalformedRowSkipped ==
    /\ InPairLoop =>
           /\ inner = SamplesOf(WellFormedRows(Window(aei[planet + 1])))
           /\ outer = SamplesOf(WellFormedRows(Window(aei[planet + 2])))
    /\ error # "NameError"

\* Column col of sample j of the track read from rows holds the value of row j
\* if the conversion of row j reached it, and else what the name held before:
\* the value of sample j - 1, or of the last sample of the file read before.
StaleOrOwn(trk, rows, before, j) ==
    LET prev(col) == IF j > 1 THEN trk[col][j - 1] ELSE before[col][Len(before[col])]
    IN  /\ trk.t[j] = IF rows[j].parsed >= 1 THEN rows[j].t ELSE prev("t")
        /\ trk.a[j] = IF rows[j].parsed >= 2 THEN rows[j].a ELSE prev("a")
        /\ trk.g[j] = IF rows[j].parsed >= 3 THEN rows[j].g ELSE prev("g")
        /\ trk.n[j] = IF rows[j].parsed >= 4 THEN rows[j].n ELSE prev("n")
        /\ trk.M[j] = IF rows[j].parsed >= 5 THEN rows[j].M ELSE prev("M")

\* What the script does with a malformed row: while the pair is analysed no
\* row was skipped, and a malformed row gave a sample made of its columns that
\* converted and of the values of the sample before it, which for the first
\* row of a file is the last sample of the file of the inner planet; a script
\* ended by NameError met a malformed row.
C24_MalformedRowRepeatsValues ==
    /\ (InPairLoop /\ Len(inner.t) > 0) =>
           /\ Len(outer.t) = Len(Window(aei[planet + 2]))
           /\ \A j \in DOMAIN outer.t :
                  StaleOrOwn(outer, Window(aei[planet + 2]), inner, j)
    /\ error = "NameError" => \E i \in DOMAIN aei : ~WellFormed(Window(aei[i]))

\* C24 witness: a pair is analysed; row 20 of the inner file lost its last
\* three columns and sample 20 of the inner track holds those of row 19; the
\* first row of the outer file is malformed and sample 1 of the outer track is
\* the last sample of the inner track.
C24_Witness ==
    /\ pc = "resonance"
    /\ Len(inner.t) = NB_LAST_POINTS
    /\ Len(outer.t) = NB_LAST_POINTS
    /\ aei[planet + 1][20].parsed = 2
    /\ inner.t[20] = aei[planet + 1][20].t
    /\ inner.M[20] = inner.M[19]
    /\ inner.M[20] # aei[planet + 1][20].M
    /\ aei[planet + 2][1].parsed = 0
    /\ outer.M[1] = inner.M[NB_LAST_POINTS]
    /\ outer.M[1] # aei[planet + 2][1].M

\* The first of the accepted candidates acc that has the smallest numerator.
FirstOfSmallestNumerator(acc) ==
    LET k == CHOOSE j \in DOMAIN acc :
                 /\ \A other \in DOMAIN acc : acc[j].numerator <= acc[other].numerator
                 /\ \A other \in 1 .. j - 1 : acc[other].numerator > acc[j].numerator
    IN  acc[k]

\* The step that accepts candidate c for pair i.
C25_Accepting(i, c) ==
    LET main  == mean_motion_res[i]
        extra == extra_mean_motion_res[i]
    IN  IF main = None
        THEN /\ mean_motion_res'[i] = c
             /\ extra_mean_motion_res'[i] = extra
        ELSE IF c.numerator < main.numerator
        THEN /\ mean_motion_res'[i] = c
             /\ extra_mean_motion_res'[i] = Append(extra, main)
        ELSE /\ mean_motion_res'[i] = main
             /\ extra_mean_motion_res'[i] = Append(extra, c)

C25_Step ==
    pc = "resonance" =>
        \A c \in todo \ todo' :
            discovered'[planet + 1] = Append(discovered[planet + 1], c) =>
                C25_Accepting(planet + 1, c)

\* C25: an accepted candidate replaces the primary only when its numerator is
\* strictly smaller than the primary's, and the primary it replaces goes to
\* the secondary list; otherwise, equal numerators included, the primary stays
\* and the candidate is appended to the secondary list.  Of two accepted
\* candidates of the same numerator the one accepted first is the primary.
C25_PrimaryReplacedOnlyIfSmaller ==
    /\ [][C25_Step]_vars
    /\ [](\A i \in Pairs :
              discovered[i] # <<>> =>
                  mean_motion_res[i] = FirstOfSmallestNumerator(discovered[i]))

\* C25 witness: two candidates of the same numerator were accepted, the one of
\* larger value first; it is the primary and the other one is in the secondary
\* list.
C25_Witness ==
    /\ pc = "done"
    /\ Len(discovered[1]) = 2
    /\ discovered[1][1].numerator = discovered[1][2].numerator
    /\ discovered[1][1].denominator < discovered[1][2].denominator
    /\ mean_motion_res[1] = discovered[1][1]
    /\ extra_mean_motion_res[1] = <<discovered[1][2]>>

(***************************************************************************)
(* analysis/mercury-check-simulation.py: each simulation folder is         *)
(* classified (finished, not finished, NaN) and, according to the options, *)
(* resubmitted.  The options of the model are the keys that act on the     *)
(* resubmission, 'finished' for those that only change the display (meta,  *)
(* verbose) and 'help' for those that end the script (help, an unknown     *)
(* key).  One folder of simulations is analysed (no option meta).  A       *)
(* simulation folder is [param_in, NaN, complete]: param.in exists, big.dmp*)
(* holds NaN, the tail of info.out holds 'Integration complete'.           *)
(***************************************************************************)
MaxArgs == 2                \* command-line arguments
MaxSimulations == 2         \* simulation folders

Keys == {"restart", "force-start", "force-continue", "continue", "walltime",
         "finished", "help"}

Folders ==
    {[param_in |-> TRUE, NaN |-> n, complete |-> c] : n, c \in BOOLEAN}
        \cup {[param_in |-> FALSE, NaN |-> FALSE, complete |-> FALSE]}

SeqsUpTo(set, len) == UNION {[1 .. k -> set] : k \in 0 .. len}

NotChecked == -1

\* lines 73-98: one argument
ParseKey(opt, key) ==
    CASE key = "restart"        -> [opt EXCEPT !.isRestart = TRUE]
      [] key = "force-start"    -> [opt EXCEPT !.isForcedStart = TRUE,
                                               !.isRestart = FALSE,
                                               !.isContinue = FALSE]
      [] key = "force-continue" -> [opt EXCEPT !.isForcedContinue = TRUE,
                                               !.isForcedStart = FALSE,
                                               !.isRestart = FALSE,
                                               !.isContinue = FALSE]
      [] key = "continue"       -> [opt EXCEPT !.isContinue = TRUE]
      [] key = "walltime"       -> [opt EXCEPT !.WALLTIME = TRUE]
      [] key = "finished"       -> [opt EXCEPT !.showFinished = TRUE]
      [] OTHER                  -> [opt EXCEPT !.isProblem = TRUE]

SimulationStatusFinishedFirst(folder) ==
    IF folder.complete THEN 0
    ELSE IF folder.NaN THEN 2
    ELSE 1

\* lines 150-179
SimulationStatus(folder) ==
    IF ~folder.NaN
    THEN IF ~folder.complete THEN 1 ELSE 0
    ELSE 2

\* lines 198-199: the submission script is written before any resubmission
PrepareSubmission(status, opt) ==
    IF (status # 0 /\ (opt.isContinue \/ opt.isRestart))
           \/ opt.isForcedStart \/ opt.isForcedContinue
    THEN <<"prepareSubmission">>
    ELSE <<>>

\* lines 202-209: the resubmissions of one simulation, in order
Resubmission(status, opt) ==
    (IF opt.isForcedStart THEN <<"mercury_restart">> ELSE <<>>)
        \o (IF (status = 1 /\ opt.isContinue) \/ opt.isForcedContinue
            THEN <<"mercury_continue">> ELSE <<>>)
        \o (IF status = 2 /\ opt.isRestart THEN <<"mercury_restart">> ELSE <<>>)

\* The detector, the harnesses and mercury-orbits.py while this script runs.
OnlyCheckRuns ==
    /\ DetectorIdle
    /\ period_i = <<1, 1>>
    /\ max_denominator = DENOMINATOR_LIMIT
    /\ fraction = None
    /\ phi_raw = <<>>
    /\ phi_folded = <<>>
    /\ previous = NoRun
    /\ OrbitsIdle

otherThanCheck == <<detectorVars, period_i, max_denominator, fraction, phi_raw,
                    phi_folded, previous, orbitsVars>>

\* lines 34-44, for any command line and any folder of simulations
InitCheck ==
    /\ pc = "arguments"
    /\ argv \in SeqsUpTo(Keys, MaxArgs)
    /\ avakas \in BOOLEAN
    /\ simu_list \in SeqsUpTo(Folders, MaxSimulations)
    /\ options = NoOptions
    /\ arg = 0
    /\ simu = 0
    /\ simulation_status = [k \in DOMAIN simu_list |-> NotChecked]
    /\ calls = [k \in DOMAIN simu_list |-> <<>>]
    /\ finished = 0
    /\ OnlyCheckRuns

\* lines 68-98: the next argument
ParseArgument ==
    /\ pc = "arguments"
    /\ arg < Len(argv)
    /\ options' = ParseKey(options, argv[arg + 1])
    /\ arg' = arg + 1
    /\ UNCHANGED <<pc, argv, avakas, simu_list, simu, simulation_status, calls, finished>>
    /\ UNCHANGED otherThanCheck

\* lines 100-102
Usage ==
    /\ pc = "arguments"
    /\ arg = Len(argv)
    /\ options.isProblem
    /\ pc' = "exit"
    /\ UNCHANGED checkVars
    /\ UNCHANGED otherThanCheck

\* lines 104-106
WalltimeNotSet ==
    /\ pc = "arguments"
    /\ arg = Len(argv)
    /\ ~options.isProblem
    /\ avakas /\ ~options.WALLTIME
    /\ options.isContinue \/ options.isRestart \/ options.isForcedStart
    /\ pc' = "exit"
    /\ UNCHANGED checkVars
    /\ UNCHANGED otherThanCheck

\* lines 100-145: the options are accepted, the folders are listed
ListSimulations ==
    /\ pc = "arguments"
    /\ arg = Len(argv)
    /\ ~options.isProblem
    /\ ~(/\ avakas /\ ~options.WALLTIME
         /\ options.isContinue \/ options.isRestart \/ options.isForcedStart)
    /\ pc' = "simulations"
    /\ UNCHANGED checkVars
    /\ UNCHANGED otherThanCheck

\* lines 147-217: one turn of the loop, for a folder that holds param.in
CheckSimulation ==
    /\ pc = "simulations"
    /\ simu < Len(simu_list)
    /\ simu_list[simu + 1].param_in
    /\ LET status == SimulationStatus(simu_list[simu + 1])
       IN  /\ simulation_status' = [simulation_status EXCEPT ![simu + 1] = status]
           /\ calls' = [calls EXCEPT ![simu + 1] =
                            PrepareSubmission(status, options)
                                \o Resubmission(status, options)]
           /\ finished' = IF status = 0 THEN finished + 1 ELSE finished
    /\ simu' = simu + 1
    /\ UNCHANGED <<pc, argv, avakas, simu_list, options, arg>>
    /\ UNCHANGED otherThanCheck

\* lines 147-156: a folder without param.in; break leaves the loop
FolderSkipped ==
    /\ pc = "simulations"
    /\ simu < Len(simu_list)
    /\ ~simu_list[simu + 1].param_in
    /\ pc' = "summary"
    /\ UNCHANGED checkVars
    /\ UNCHANGED otherThanCheck

\* lines 219-236: the loop has gone through simu_list
EndOfSimulations ==
    /\ pc = "simulations"
    /\ simu = Len(simu_list)
    /\ pc' = "summary"
    /\ UNCHANGED checkVars
    /\ UNCHANGED otherThanCheck

NextCheck ==
    \/ ParseArgument
    \/ Usage
    \/ WalltimeNotSet
    \/ ListSimulations
    \/ CheckSimulation
    \/ FolderSkipped
    \/ EndOfSimulations

SpecCheck == InitCheck /\ [][NextCheck]_vars

(***************************************************************************)
(* Properties of mercury-check-simulation.py (SpecCheck).                  *)
(***************************************************************************)
\* The option was given on the command line.
Given(key) == \E k \in DOMAIN argv : argv[k] = key

Called(k, function) == \E c \in DOMAIN calls[k] : calls[k][c] = function

\* The calls to mercury_restart and mercury_continue for folder k, in order.
IsResubmission(function) == function \in {"mercury_restart", "mercury_continue"}

Resubmissions(k) == SelectSeq(calls[k], IsResubmission)

\* C26: a simulation whose big.dmp holds NaN has status 2 whether or not its
\* integration completed; otherwise it has status 1 if 'Integration complete'
\* is absent and 0 if it is present.  mercury_continue is called only for an
\* unfinished simulation when 'continue' was given, or when 'force-continue'
\* was given; mercury_restart only for a NaN simulation when 'restart' was
\* given, or when 'force-start' was given; a finished simulation is
\* resubmitted only if a force option was given.
C26_StatusAndResubmission ==
    \A k \in DOMAIN simu_list :
        IF simulation_status[k] = NotChecked THEN calls[k] = <<>>
        ELSE /\ simulation_status[k] =
                    (IF simu_list[k].NaN THEN 2
                     ELSE IF simu_list[k].complete THEN 0 ELSE 1)
             /\ Called(k, "mercury_continue") =>
                    \/ simulation_status[k] = 1 /\ Given("continue")
                    \/ Given("force-continue")
             /\ Called(k, "mercury_restart") =>
                    \/ simulation_status[k] = 2 /\ Given("restart")
                    \/ Given("force-start")
             /\ (simulation_status[k] = 0 /\ Resubmissions(k) # <<>>) =>
                    (Given("force-start") \/ Given("force-continue"))

\* C26 witness: with 'restart' and 'continue' and no force option, a
\* simulation with NaN whose integration completed was restarted, and a
\* finished one was left alone.
C26_Witness ==
    /\ pc = "summary"
    /\ argv = <<"restart", "continue">>
    /\ Len(simu_list) = 2
    /\ simu_list[1].NaN /\ simu_list[1].complete
    /\ simulation_status[1] = 2
    /\ calls[1] = <<"prepareSubmission", "mercury_restart">>
    /\ simulation_status[2] = 0
    /\ calls[2] = <<>>

\* The folders of simu_list that hold param.in.
Regular == {k \in DOMAIN simu_list : simu_list[k].param_in}

\* C27 as claimed: a folder without param.in is the only one skipped; at the
\* end every folder that holds param.in was checked, and the finished ones
\* among them were counted.
C27_OnlyThatFolderSkipped ==
    pc = "summary" =>
        /\ \A k \in Regular : simulation_status[k] # NotChecked
        /\ finished = Cardinality({k \in Regular : SimulationStatus(simu_list[k]) = 0})

\* What the script does: the folders checked and counted are those sorted
\* before the first folder without param.in.
C27_LaterFoldersDropped ==
    pc = "summary" =>
        LET before == {k \in DOMAIN simu_list : \A j \in 1 .. k : simu_list[j].param_in}
        IN  /\ \A k \in DOMAIN simu_list : simulation_status[k] # NotChecked <=> k \in before
            /\ finished = Cardinality({k \in before : SimulationStatus(simu_list[k]) = 0})

\* C27 witness: the first folder has no param.in; the second is a finished
\* simulation that was neither checked nor counted.
C27_Witness ==
    /\ pc = "summary"
    /\ Len(simu_list) = 2
    /\ ~simu_list[1].param_in
    /\ simu_list[2].param_in /\ simu_list[2].complete /\ ~simu_list[2].NaN
    /\ simulation_status[2] = NotChecked
    /\ finished = 0

\* C28 as claimed: at most one resubmission is performed for a simulation.
C28_AtMostOneResubmission ==
    \A k \in DOMAIN calls : Len(Resubmissions(k)) <= 1

\* What the script does: a simulation is resubmitted more than once only when
\* a force option is in effect and another resubmission option was given with
\* it; it is never resubmitted more than three times.
C28_TwiceOnlyWithForceOption ==
    \A k \in DOMAIN calls :
        /\ Len(Resubmissions(k)) <= 3
        /\ Len(Resubmissions(k)) > 1 =>
               /\ options.isForcedStart \/ options.isForcedContinue
               /\ Cardinality({key \in {"restart", "force-start", "force-continue",
                                        "continue"} : Given(key)}) > 1

\* C28 witness: 'force-continue' then 'force-start': a finished simulation was
\* restarted, then continued.
C28_Witness ==
    /\ pc = "summary"
    /\ argv = <<"force-continue", "force-start">>
    /\ Len(simu_list) >= 1
    /\ simulation_status[1] = 0
    /\ calls[1] = <<"prepareSubmission", "mercury_restart", "mercury_continue">>

(***************************************************************************)
(* mercury-orbits.py: the frames of the animation of the orbits.  The      *)
(* model keeps the times of the outputs and the index arithmetic that      *)
(* chooses the output drawn on each frame; the coordinates drawn are left  *)
(* out.  Times are whole years and the arithmetic is exact.                *)
(***************************************************************************)
MaxSamples == 4
MaxFrames == 3
OutputIntervals == {1, 2}

\* int(x): the integer part, towards zero.
Trunc(f) ==
    IF f.numerator >= 0
    THEN f.numerator \div f.denominator
    ELSE -((-f.numerator) \div f.denominator)

\* The time column of a .aei file with n outputs.
Times(step, n) == [k \in 1 .. n |-> (k - 1) * step]

\* The detector, the harnesses and mercury-check-simulation.py while this
\* script runs.
OnlyOrbitsRuns ==
    /\ DetectorIdle
    /\ period_i = <<1, 1>>
    /\ max_denominator = DENOMINATOR_LIMIT
    /\ fraction = None
    /\ phi_raw = <<>>
    /\ phi_folded = <<>>
    /\ previous = NoRun
    /\ CheckIdle

otherThanOrbits == <<detectorVars, period_i, max_denominator, fraction, phi_raw,
                     phi_folded, previous, checkVars>>

\* lines 17 and 41-67: the options t_min, t_max and frames, if given; lines
\* 158-174: the tracks, the first planet's no longer than the longest.
InitOrbits ==
    /\ pc = "orbits"
    /\ \E step \in OutputIntervals, n \in 2 .. MaxSamples : ref_time = Times(step, n)
    /\ len_t0 \in 2 .. Len(ref_time)
    /\ NB_FRAMES \in 0 .. MaxFrames
    /\ t_min \in {NoTime} \cup (0 .. ref_time[Len(ref_time)])
    /\ t_max \in {NoTime} \cup (0 .. ref_time[Len(ref_time)])
    /\ delta_t = None
    /\ id_min = 0
    /\ id_max = 0
    /\ ts_per_frame = None
    /\ frame_i = 0
    /\ id_time = <<>>
    /\ OnlyOrbitsRuns

\* lines 72-74 and 177-193
ReadTracks ==
    /\ pc = "orbits"
    /\ NB_FRAMES' = IF NB_FRAMES <= 1 THEN 2 ELSE NB_FRAMES
    /\ delta_t' = Fraction(ref_time[len_t0] - ref_time[1], len_t0)
    /\ pc' = "t_max"
    /\ UNCHANGED <<len_t0, ref_time, t_min, t_max, id_min, id_max, ts_per_frame,
                   frame_i, id_time>>
    /\ UNCHANGED otherThanOrbits

\* lines 197 and 205: int((time - ref_time[0]) / delta_t)
TimeIndex(time) == Trunc(FrDiv(FrInt(time - ref_time[1]), delta_t))

\* lines 196-201
IndexOfTMax ==
    /\ pc = "t_max"
    /\ LET id == IF t_max # NoTime THEN TimeIndex(t_max) ELSE Len(ref_time) - 1
       IN  /\ id < Len(ref_time)
           /\ id_max' = id
           /\ t_max' = ref_time[id + 1]
    /\ pc' = "t_min"
    /\ UNCHANGED <<len_t0, ref_time, NB_FRAMES, t_min, delta_t, id_min, ts_per_frame,
                   frame_i, id_time>>
    /\ UNCHANGED otherThanOrbits

\* lines 197-198: ref_time[id_max] past the last output
TMaxOutOfRange ==
    /\ pc = "t_max"
    /\ t_max # NoTime
    /\ TimeIndex(t_max) >= Len(ref_time)
    /\ id_max' = TimeIndex(t_max)
    /\ pc' = "IndexError"
    /\ UNCHANGED <<len_t0, ref_time, NB_FRAMES, t_min, t_max, delta_t, id_min,
                   ts_per_frame, frame_i, id_time>>
    /\ UNCHANGED otherThanOrbits

\* lines 204-209
IndexOfTMin ==
    /\ pc = "t_min"
    /\ LET id == IF t_min # NoTime THEN TimeIndex(t_min) ELSE 0
       IN  /\ id < Len(ref_time)
           /\ id_min' = id
           /\ t_min' = ref_time[id + 1]
    /\ pc' = "frame_rate"
    /\ UNCHANGED <<len_t0, ref_time, NB_FRAMES, t_max, delta_t, id_max, ts_per_frame,
                   frame_i, id_time>>
    /\ UNCHANGED otherThanOrbits

\* lines 205-206: ref_time[id_min] past the last output
TMinOutOfRange ==
    /\ pc = "t_min"
    /\ t_min # NoTime
    /\ TimeIndex(t_min) >= Len(ref_time)
    /\ id_min' = TimeIndex(t_min)
    /\ pc' = "IndexError"
    /\ UNCHANGED <<len_t0, ref_time, NB_FRAMES, t_min, t_max, delta_t, id_max,
                   ts_per_frame, frame_i, id_time>>
    /\ UNCHANGED otherThanOrbits

\* lines 230-239
FrameRate ==
    /\ pc = "frame_rate"
    /\ LET delta_t_min == FrDiv(FrInt(t_max - t_min), FrInt(NB_FRAMES - 1))
           ts == FrDiv(delta_t_min, delta_t)
       IN  IF FrLess(ts, FrInt(1))
           THEN /\ ts_per_frame' = FrInt(1)
                /\ NB_FRAMES' = id_max - id_min + 1
           ELSE /\ ts_per_frame' = ts
                /\ UNCHANGED NB_FRAMES
    /\ pc' = "frames"
    /\ UNCHANGED <<len_t0, ref_time, t_min, t_max, delta_t, id_min, id_max, frame_i,
                   id_time>>
    /\ UNCHANGED otherThanOrbits

\* lines 258-317: one frame, saved whatever could be drawn on it
RenderFrame ==
    /\ pc = "frames"
    /\ frame_i < NB_FRAMES
    /\ frame_i' = frame_i + 1
    /\ id_time' = Append(id_time,
                         IF frame_i' = NB_FRAMES - 1
                         THEN id_max
                         ELSE id_min + Trunc(FrMul(FrInt(frame_i'), ts_per_frame)))
    /\ UNCHANGED <<pc, len_t0, ref_time, NB_FRAMES, t_min, t_max, delta_t, id_min,
                   id_max, ts_per_frame>>
    /\ UNCHANGED otherThanOrbits

\* line 258: range(1, NB_FRAMES+1) is exhausted
EndOfFrames ==
    /\ pc = "frames"
    /\ frame_i >= NB_FRAMES
    /\ pc' = "shown"
    /\ UNCHANGED orbitsVars
    /\ UNCHANGED otherThanOrbits

NextOrbits ==
    \/ ReadTracks
    \/ IndexOfTMax
    \/ TMaxOutOfRange
    \/ IndexOfTMin
    \/ TMinOutOfRange
    \/ FrameRate
    \/ RenderFrame
    \/ EndOfFrames

SpecOrbits == InitOrbits /\ [][NextOrbits]_vars

(***************************************************************************)
(* Properties of mercury-orbits.py (SpecOrbits).                           *)
(***************************************************************************)
\* The frames saved so far.
Rendered == DOMAIN id_time

\* C29: every rendered frame shows an output between id_min and id_max, the
\* outputs shown never go back from one frame to the next, and the last
\* frame rendered shows the output id_max, at t_max.
C29_FramesWithinWindow ==
    pc \in {"frames", "shown"} =>
        /\ \A k \in Rendered : id_min <= id_time[k] /\ id_time[k] <= id_max
        /\ \A k \in Rendered : k + 1 \in Rendered => id_time[k] <= id_time[k + 1]
        /\ (pc = "shown" /\ Rendered # {}) => id_time[Len(id_time)] = id_max

\* What the script does: the frame before the last shows id_max, and the
\* last frame shows the output NB_FRAMES * ts_per_frame after id_min.
C29_SecondToLastAtIdMax ==
    (pc = "shown" /\ Rendered # {}) =>
        /\ Len(id_time) = NB_FRAMES
        /\ NB_FRAMES >= 2 => id_time[NB_FRAMES - 1] = id_max
        /\ id_time[NB_FRAMES] =
               id_min + Trunc(FrMul(FrInt(NB_FRAMES), ts_per_frame))
        /\ id_time[NB_FRAMES] > id_max

\* No option: two frames, the first at the last output and the second at an
\* index past the end of every track.
C29_Witness ==
    /\ pc = "shown"
    /\ NB_FRAMES = 2
    /\ id_min = 0
    /\ id_max = Len(ref_time) - 1
    /\ Len(id_time) = 2
    /\ id_time[1] = id_max
    /\ id_time[2] >= Len(ref_time)

====
